---- MODULE Spec2Model ----
(***************************************************************************)
(* BleScope: the detection pipeline (BleakScannerAdapter), the observable  *)
(* device repository with its observer fan-out, the event-publishing       *)
(* observer and the scan lifecycle manager, as a state machine.            *)
(*                                                                         *)
(* Python objects are modelled with a heap (objs): the repository maps an  *)
(* address to an object id, and a task that obtained a Device from get()   *)
(* holds the id of the very object the repository stores.                  *)
(***************************************************************************)
EXTENDS Integers, Sequences, FiniteSets, TLC

\* ------------------------------------------------------------------ bounds
\* cap on the logical clock, advanced by every datetime.now() read
MaxClock == 2
\* number of detection tasks that can be alive at the same time
MaxTasks == 2
\* number of ScanManager instances (dependencies.get_scan_manager makes one
\* per request)
MaxManagers == 2
\* cap on the accepted start_scan and stop_scan calls
MaxScanCalls == 4
\* the wall clock of the event specification runs from 0 to MaxTime
MaxTime == 2
\* cap on the events published in the event specification
MaxEvents == 2
\* cap on the decoders in the registry, the built-in one included
MaxDecoders == 3

\* ------------------------------------------------------------ input domains
Addresses == {"a1", "a2"}
None == "None"
DeviceNames == {None, "A", "B"}
LocalNames == {None, "L"}
RssiValues == {-70, -68, -60}
IBEACON_COMPANY_ID == 76
EmptyMd == [v \in {} |-> "p1"]
MdValues == {EmptyMd} \cup {[v \in {IBEACON_COMPANY_ID} |-> p] : p \in {"p1", "p2"}}
\* advertisement_data.local_name is read only in "device.name or local_name",
\* so it is varied only where device.name is None
Advertisements ==
    {adv \in [address : Addresses, name : DeviceNames, local_name : LocalNames,
              rssi : RssiValues, manufacturer_data : MdValues] :
        adv.name # None => adv.local_name = None}
NoAdv ==
    [address |-> "-", name |-> None, local_name |-> None, rssi |-> 0,
     manufacturer_data |-> EmptyMd]

Tasks == 1 .. MaxTasks
\* the caller of the repository that is not a detection task (delete, clear)
Client == MaxTasks + 1
\* asyncio.Lock unlocked
Free == 0
\* dict.get() found nothing
NoDev == 0
Observers == {"pub", "aux"}
Managers == 1 .. MaxManagers
\* scanner.start_scan() gives a coroutine (the port: "async def start_scan")
\* or an async generator (BleakScannerAdapter.start_scan has a yield)
ScannerKinds == {"coroutine", "async_generator"}
\* scan_repo.get_current() found nothing; scan ids are counted from 1
NoScan == [id |-> 0, state |-> "absent", discovered_devices |-> {}]
IdleManager == [pc |-> "idle", task |-> "none"]
NoOutcome == [op |-> "none", by |-> 0, result |-> "none"]
\* the websocket connections WebSocketManager broadcasts to
Connections == {"c1", "c2"}
\* the event types WebSocketManager subscribes a handler for
EventTypes == {"ScanStarted", "ScanStopped", "DeviceCreated", "DeviceUpdated"}
\* the constructor's caller passes no occurred_at
NotSupplied == -1
\* the decoder ManufacturerDataDecoder registers when it is built
IBeaconDecoder == [class |-> "IBeaconDecoder", can_decode |-> "code", decode |-> "code"]
\* no call into the dissector library was made
NoCall == [op |-> "none"]
\* the handlers that can be subscribed on the bus for an event type
Handlers == {"h1", "h2"}
\* the observer awaits no publish
NoPublishing == [h \in {} |-> "spawned"]

VARIABLES
    devices,            \* InMemoryObservableDeviceRepository._devices: address -> object id
    objs,               \* the heap of Device objects
    observers,          \* InMemoryObservableDeviceRepository._observers
    lock,               \* InMemoryObservableDeviceRepository._lock: Free or its holder
    tasks,              \* the _process_detection tasks created by _detection_callback
    notif,              \* the fan-out of the store call that holds the lock
    last_known_state,   \* EventPublishingObserver._last_known_state
    bus_log,            \* the events handed to EventBus.publish, in order
    discovered_queue,   \* BleakScannerAdapter._discovered_queue
    clock,              \* logical time of datetime.now()
    outcome,            \* the last completed call and how it ended
    detected,           \* the arguments of the latest _process_detection
    scan,               \* the Scan the scan repository holds (get_current)
    mgr,                \* per ScanManager: the call in progress and _scan_task
    adapter,            \* BleakScannerAdapter._scanning and _scanner
    scanner_kind,       \* what scanner.start_scan() returns when called
    scan_calls,         \* accepted start_scan and stop_scan calls so far
    sent,               \* per websocket connection, the messages sent to it
    _decoders,          \* ManufacturerDataDecoder._decoders, in registration order
    call,               \* the latest call into the dissector library
    handlers,           \* the handlers subscribed on the bus for device events
    publishing          \* the publish the observer awaits: its handlers' units

scanVars == <<scan, mgr, adapter, scanner_kind, scan_calls>>

wsVars == <<sent>>

libVars == <<_decoders, call>>

busVars == <<handlers, publishing>>

vars ==
    <<devices, objs, observers, lock, tasks, notif, last_known_state, bus_log,
      discovered_queue, clock, outcome, detected, scanVars, wsVars, libVars,
      busVars>>

\* ------------------------------------------------------------ Python helpers
Abs(x) == IF x < 0 THEN -x ELSE x
\* truth value of an Optional[str]
Truthy(s) == s # None /\ s # ""
\* a or b
Or(a, b) == IF Truthy(a) THEN a ELSE b
\* truth value of a dict
NonEmpty(md) == DOMAIN md # {}

_rssi_change_threshold == 5

NoNotif ==
    [kind |-> "none", address |-> "-", device |-> NoDev, caller |-> Free,
     units |-> [o \in {} |-> "spawned"]]
\* found: get() returned a device (the task took the branch of line 142)
IdleTask == [pc |-> "idle", dev |-> NoDev, found |-> FALSE]

Init ==
    /\ devices = [a \in Addresses |-> NoDev]
    /\ objs = <<>>
    /\ observers = {}
    /\ lock = Free
    /\ tasks = [t \in Tasks |-> IdleTask]
    /\ notif = NoNotif
    /\ last_known_state = [a \in Addresses |-> [known |-> FALSE, rssi |-> 0, name |-> None]]
    /\ bus_log = <<>>
    /\ discovered_queue = <<>>
    /\ clock = 0
    /\ outcome = NoOutcome
    /\ detected = NoAdv
    /\ scan = NoScan
    /\ mgr = [m \in Managers |-> IdleManager]
    /\ adapter = [scanning |-> FALSE, scanner |-> FALSE]
    /\ scanner_kind = "async_generator"
    /\ scan_calls = 0
    /\ sent = [c \in Connections |-> <<>>]
    /\ _decoders = <<IBeaconDecoder>>
    /\ call = NoCall
    /\ handlers = {}
    /\ publishing = NoPublishing

\* -------------------------------------------- _process_detection, up to save
NewDevice(adv, now) ==
    [address |-> adv.address,
     name |-> Or(adv.name, adv.local_name),
     rssi |-> adv.rssi,
     manufacturer_data |-> adv.manufacturer_data,
     last_seen |-> now]

rssi_delta(existing, adv) == Abs(existing.rssi - existing.rssi)

\* the comparison without its "is not None" guard
named_changed_unguarded(existing, adv) == adv.name # existing.name

named_changed(existing, adv) == adv.name # existing.name /\ adv.name # None

manufacturer_changed(existing, adv) ==
    IF NonEmpty(adv.manufacturer_data)
    THEN adv.manufacturer_data # existing.manufacturer_data
    ELSE FALSE

SignificantChange(existing, adv) ==
    \/ rssi_delta(existing, adv) >= _rssi_change_threshold
    \/ named_changed(existing, adv)
    \/ manufacturer_changed(existing, adv)

\* the in-place updates of existing_device, in the order of the code
UpdatedDevice(existing, adv, now) ==
    LET e1 == IF manufacturer_changed(existing, adv)
              THEN [existing EXCEPT !.manufacturer_data = adv.manufacturer_data]
              ELSE existing
        e2 == IF rssi_delta(existing, adv) >= _rssi_change_threshold
              THEN [e1 EXCEPT !.rssi = adv.rssi]
              ELSE e1
        e3 == IF named_changed(existing, adv) /\ Truthy(e2.name)
              THEN [e2 EXCEPT !.name = Or(adv.name, adv.local_name)]
              ELSE e2
    IN  [e3 EXCEPT !.last_seen = now]

\* a lock that anyone enters at any time
CanAcquireAlways(l) == TRUE

\* "async with self._lock" goes on when no one holds the asyncio.Lock
CanAcquire(l) == l = Free

\* _detection_callback creates the task, which runs _process_detection up to
\* the call of save: existing_device = await self._device_repo.get(address)
\* takes and releases the lock, so the task gets there once the lock is free.
ProcessDetectionGet(t, adv) ==
    /\ tasks[t].pc = "idle"
    /\ CanAcquire(lock)
    /\ detected' = adv
    /\ LET existing_device == devices[adv.address]
       IN  IF existing_device = NoDev
           THEN /\ clock < MaxClock
                /\ objs' = Append(objs, NewDevice(adv, clock + 1))
                /\ clock' = clock + 1
                /\ tasks' = [tasks EXCEPT ![t] = [pc |-> "save", dev |-> Len(objs) + 1,
                                                  found |-> FALSE]]
           ELSE IF SignificantChange(objs[existing_device], adv)
           THEN /\ clock < MaxClock
                /\ objs' = [objs EXCEPT ![existing_device] =
                               UpdatedDevice(objs[existing_device], adv, clock + 1)]
                /\ clock' = clock + 1
                /\ tasks' = [tasks EXCEPT ![t] = [pc |-> "save", dev |-> existing_device,
                                                  found |-> TRUE]]
           ELSE UNCHANGED <<objs, clock, tasks>>
    /\ UNCHANGED <<devices, observers, lock, notif, last_known_state, bus_log,
                   discovered_queue, outcome>>
    /\ UNCHANGED scanVars
    /\ UNCHANGED wsVars
    /\ UNCHANGED libVars
    /\ UNCHANGED busVars

\* ------------------------------------ InMemoryObservableDeviceRepository.save
\* is_new read after the assignment to self._devices
IsNewAfterInsert(address) == FALSE

IsNew(address) == devices[address] = NoDev

\* one asyncio task per observer of self._observers
SpawnUnits == [o \in observers |-> "spawned"]

\* asyncio.Queue(): no maxsize is given, so it is 0, which asyncio reads as
\* "no limit"
maxsize == 0

\* Queue.full(): never true when maxsize <= 0
QueueFull(queue) == maxsize > 0 /\ Len(queue) >= maxsize

\* self._discovered_queue.put_nowait(existing_device): QueueFull is caught and
\* the device dropped with a warning
PutNowait(queue, dev) == IF QueueFull(queue) THEN queue ELSE Append(queue, dev)

\* a save that notifies without writing the map
StoreDeviceSkipped(map, address, dev) == map

\* self._devices[device.address] = device
StoreDevice(map, address, dev) == [map EXCEPT ![address] = dev]

\* await self._device_repo.save(device), up to the await of gather; without
\* observers nothing is awaited and the call returns at once.
ProcessDetectionSave(t) ==
    /\ tasks[t].pc = "save"
    /\ CanAcquire(lock)
    /\ LET dev == tasks[t].dev
           address == objs[dev].address
           kind == IF IsNew(address) THEN "created" ELSE "updated"
       IN  /\ devices' = StoreDevice(devices, address, dev)
           /\ IF observers = {}
              THEN /\ tasks' = [tasks EXCEPT ![t] = IdleTask]
                   /\ discovered_queue' = PutNowait(discovered_queue, dev)
                   /\ outcome' = [op |-> "save", by |-> 0, result |-> "ok"]
                   /\ UNCHANGED <<lock, notif>>
              ELSE /\ lock' = t
                   /\ notif' = [kind |-> kind, address |-> address, device |-> dev,
                                caller |-> t, units |-> SpawnUnits]
                   /\ tasks' = [tasks EXCEPT ![t].pc = "notifying"]
                   /\ UNCHANGED <<discovered_queue, outcome, detected>>
    /\ UNCHANGED <<objs, observers, last_known_state, bus_log, clock, detected>>
    /\ UNCHANGED scanVars
    /\ UNCHANGED wsVars
    /\ UNCHANGED libVars
    /\ UNCHANGED busVars

\* ------------------------------------------------------ EventBus.publish
\* publish(event): the event is handed to the handlers of its type
Publish(log, event) == Append(log, event)

\* ------------------------------------------------ EventPublishingObserver
DeviceCreated(device) ==
    [type |-> "DeviceCreated", address |-> device.address, rssi |-> device.rssi,
     name |-> device.name]

DeviceUpdated(device) ==
    [type |-> "DeviceUpdated", address |-> device.address, rssi |-> device.rssi,
     name |-> device.name]

\* last_state.get('rssi', 0), last_state.get('name') of a possibly missing entry
LastRssi(last_state) == IF last_state.known THEN last_state.rssi ELSE 0
LastName(last_state) == IF last_state.known THEN last_state.name ELSE None

\* an observer to which every difference is significant
any_change(last_state, device) ==
    \/ LastRssi(last_state) # device.rssi
    \/ LastName(last_state) # device.name

significant_change(last_state, device) ==
    \/ Abs(LastRssi(last_state) - device.rssi) >= _rssi_change_threshold
    \/ LastName(last_state) # device.name

TrackedState(device) == [known |-> TRUE, rssi |-> device.rssi, name |-> device.name]

\* on_device_created, up to the await of publish
OnDeviceCreated(device) ==
    /\ last_known_state' = [last_known_state EXCEPT ![device.address] = TrackedState(device)]
    /\ bus_log' = Publish(bus_log, DeviceCreated(device))

\* on_device_updated, up to the await of publish
OnDeviceUpdated(device) ==
    IF significant_change(last_known_state[device.address], device)
    THEN /\ last_known_state' = [last_known_state EXCEPT ![device.address] = TrackedState(device)]
         /\ bus_log' = Publish(bus_log, DeviceUpdated(device))
    ELSE UNCHANGED <<last_known_state, bus_log>>

\* on_device_deleted only logs
OnDeviceDeleted(address) == UNCHANGED <<last_known_state, bus_log>>

\* publish hands the event to the handlers of its type, each a unit of its
\* own; with no handler subscribed the call is a no-op
SpawnHandlers == [h \in handlers |-> "spawned"]

\* ----------------------------------------------------------- the fan-out
\* a spawned observer task starts to run its callback
ObserverStart(o) ==
    /\ notif.kind # "none"
    /\ o \in DOMAIN notif.units
    /\ notif.units[o] = "spawned"
    /\ notif' = [notif EXCEPT !.units[o] = "running"]
    /\ IF o = "pub"
       THEN CASE notif.kind = "created" -> OnDeviceCreated(objs[notif.device])
              [] notif.kind = "updated" -> OnDeviceUpdated(objs[notif.device])
              [] OTHER -> OnDeviceDeleted(notif.address)
       ELSE UNCHANGED <<last_known_state, bus_log>>
    /\ publishing' = IF bus_log' # bus_log THEN SpawnHandlers ELSE publishing
    /\ UNCHANGED <<devices, objs, observers, lock, tasks, discovered_queue, clock, outcome, detected>>
    /\ UNCHANGED scanVars
    /\ UNCHANGED wsVars
    /\ UNCHANGED libVars
    /\ UNCHANGED handlers

\* the callback returns
ObserverReturn(o) ==
    /\ notif.kind # "none"
    /\ o \in DOMAIN notif.units
    /\ notif.units[o] = "running"
    /\ publishing = NoPublishing
    /\ notif' = [notif EXCEPT !.units[o] = "ok"]
    /\ UNCHANGED <<devices, objs, observers, lock, tasks, last_known_state, bus_log,
                   discovered_queue, clock, outcome, detected>>
    /\ UNCHANGED scanVars
    /\ UNCHANGED wsVars
    /\ UNCHANGED libVars
    /\ UNCHANGED busVars

\* the callback raises; the event-publishing observer catches what publish raises
ObserverRaise(o) ==
    /\ notif.kind # "none"
    /\ o \in DOMAIN notif.units
    /\ o # "pub"
    /\ notif.units[o] = "running"
    /\ notif' = [notif EXCEPT !.units[o] = "raised"]
    /\ UNCHANGED <<devices, objs, observers, lock, tasks, last_known_state, bus_log,
                   discovered_queue, clock, outcome, detected>>
    /\ UNCHANGED scanVars
    /\ UNCHANGED wsVars
    /\ UNCHANGED libVars
    /\ UNCHANGED busVars

\* ------------------------------------------- EventBus handlers, publish
\* a handler of the event's type runs and returns
HandlerRuns(h) ==
    /\ h \in DOMAIN publishing
    /\ publishing[h] = "spawned"
    /\ publishing' = [publishing EXCEPT ![h] = "ok"]
    /\ UNCHANGED <<devices, objs, observers, lock, tasks, notif, last_known_state,
                   bus_log, discovered_queue, clock, outcome, detected, scanVars,
                   wsVars, libVars, handlers>>

\* a handler of the event's type runs and raises
HandlerFails(h) ==
    /\ h \in DOMAIN publishing
    /\ publishing[h] = "spawned"
    /\ publishing' = [publishing EXCEPT ![h] = "failed"]
    /\ UNCHANGED <<devices, objs, observers, lock, tasks, notif, last_known_state,
                   bus_log, discovered_queue, clock, outcome, detected, scanVars,
                   wsVars, libVars, handlers>>

\* every handler of the publish has ended
HandlersDone(units) == \A h \in DOMAIN units : units[h] \in {"ok", "failed"}

\* an observer callback without the try around publish
CallbackUncaught(result) == IF result = "ok" THEN "ok" ELSE "raised"

\* "try: await self._event_bus.publish(event)" with its except clauses for
\* HandlerExecutionError and Exception: the callback logs and returns
CallbackEnd(result) == "ok"

\* the awaited publish ends, and with it the observer callback: a handler
\* failure reaches the observer as HandlerExecutionError, or stays in the bus
PublishEnds(raises) ==
    /\ publishing # NoPublishing
    /\ HandlersDone(publishing)
    /\ raises => \E h \in DOMAIN publishing : publishing[h] = "failed"
    /\ LET result == IF raises THEN "HandlerExecutionError" ELSE "ok"
       IN  /\ outcome' = [op |-> "publish", by |-> 0, result |-> result]
           /\ notif' = [notif EXCEPT !.units["pub"] = CallbackEnd(result)]
    /\ publishing' = NoPublishing
    /\ UNCHANGED <<devices, objs, observers, lock, tasks, last_known_state,
                   bus_log, discovered_queue, clock, detected, scanVars,
                   wsVars, libVars, handlers>>

\* gather that ends with the first unit that ends
GatherFirstDone(units) == \E o \in DOMAIN units : units[o] \in {"ok", "raised"}
\* await asyncio.gather(*tasks, return_exceptions=True) is over
GatherDone(units) == \A o \in DOMAIN units : units[o] \in {"ok", "raised"}
\* gather without return_exceptions hands on the exception of a unit
GatherPropagates(units) ==
    IF \E o \in DOMAIN units : units[o] = "raised" THEN "raised" ELSE "ok"
\* what the awaited gather makes of the units' results
GatherResult(units) == "ok"

\* a block that is left with the lock still held
ReleaseSkipped(l) == l

\* the end of the "async with self._lock" block releases the lock
Release(l) == Free

\* gather returns, the async with block ends and the call returns to its
\* caller; a detection task goes on to put_nowait and ends.
NotifyJoin ==
    /\ notif.kind # "none"
    /\ GatherDone(notif.units)
    /\ lock' = Release(lock)
    /\ notif' = NoNotif
    /\ outcome' = [op |-> IF notif.kind = "deleted" THEN "delete" ELSE "save",
                   by |-> 0, result |-> GatherResult(notif.units)]
    /\ IF notif.caller \in Tasks
       THEN /\ tasks' = [tasks EXCEPT ![notif.caller] = IdleTask]
            /\ discovered_queue' =
                   IF GatherResult(notif.units) = "ok"
                   THEN PutNowait(discovered_queue, notif.device)
                   ELSE discovered_queue
       ELSE UNCHANGED <<tasks, discovered_queue>>
    /\ UNCHANGED <<devices, objs, observers, last_known_state, bus_log, clock, detected>>
    /\ UNCHANGED scanVars
    /\ UNCHANGED wsVars
    /\ UNCHANGED libVars
    /\ UNCHANGED busVars

\* ---------------------------------- delete, clear, subscribe, unsubscribe
\* a delete that removes the snapshot and tells no observer
DeleteSilently(address) ==
    /\ CanAcquire(lock)
    /\ devices' = [devices EXCEPT ![address] = NoDev]
    /\ outcome' = [op |-> "delete", by |-> 0, result |-> "ok"]
    /\ UNCHANGED <<objs, observers, lock, tasks, notif, last_known_state, bus_log,
                   discovered_queue, clock, detected>>
    /\ UNCHANGED scanVars
    /\ UNCHANGED wsVars
    /\ UNCHANGED libVars
    /\ UNCHANGED busVars

Delete(address) ==
    /\ CanAcquire(lock)
    /\ IF devices[address] # NoDev
       THEN /\ devices' = [devices EXCEPT ![address] = NoDev]
            /\ IF observers = {}
               THEN /\ outcome' = [op |-> "delete", by |-> 0, result |-> "ok"]
                    /\ UNCHANGED <<lock, notif>>
               ELSE /\ lock' = Client
                    /\ notif' = [kind |-> "deleted", address |-> address,
                                 device |-> NoDev, caller |-> Client,
                                 units |-> SpawnUnits]
                    /\ UNCHANGED outcome
       ELSE /\ outcome' = [op |-> "delete", by |-> 0, result |-> "ok"]
            /\ UNCHANGED <<devices, lock, notif>>
    /\ UNCHANGED <<objs, observers, tasks, last_known_state, bus_log,
                   discovered_queue, clock, detected>>
    /\ UNCHANGED scanVars
    /\ UNCHANGED wsVars
    /\ UNCHANGED libVars
    /\ UNCHANGED busVars

\* a clear that tells the observers of a deletion
ClearNotifying ==
    /\ CanAcquire(lock)
    /\ devices' = [a \in Addresses |-> NoDev]
    /\ IF observers = {} \/ \A a \in Addresses : devices[a] = NoDev
       THEN /\ outcome' = [op |-> "clear", by |-> 0, result |-> "ok"]
            /\ UNCHANGED <<lock, notif>>
       ELSE /\ lock' = Client
            /\ notif' = [kind |-> "deleted",
                         address |-> CHOOSE a \in Addresses : devices[a] # NoDev,
                         device |-> NoDev, caller |-> Client, units |-> SpawnUnits]
            /\ UNCHANGED outcome
    /\ UNCHANGED <<objs, observers, tasks, last_known_state, bus_log,
                   discovered_queue, clock, detected>>
    /\ UNCHANGED scanVars
    /\ UNCHANGED wsVars
    /\ UNCHANGED libVars
    /\ UNCHANGED busVars

Clear ==
    /\ CanAcquire(lock)
    /\ devices' = [a \in Addresses |-> NoDev]
    /\ outcome' = [op |-> "clear", by |-> 0, result |-> "ok"]
    /\ UNCHANGED <<objs, observers, lock, tasks, notif, last_known_state, bus_log,
                   discovered_queue, clock, detected>>
    /\ UNCHANGED scanVars
    /\ UNCHANGED wsVars
    /\ UNCHANGED libVars
    /\ UNCHANGED busVars

Subscribe(o) ==
    /\ observers' = observers \cup {o}
    /\ UNCHANGED <<devices, objs, lock, tasks, notif, last_known_state, bus_log,
                   discovered_queue, clock, outcome, detected>>
    /\ UNCHANGED scanVars
    /\ UNCHANGED wsVars
    /\ UNCHANGED libVars
    /\ UNCHANGED busVars

\* an unsubscribe with set.remove, which raises KeyError for a missing member
UnsubscribeStrict(o) ==
    /\ IF o \in observers
       THEN observers' = observers \ {o} /\ UNCHANGED outcome
       ELSE /\ outcome' = [op |-> "unsubscribe", by |-> 0, result |-> "KeyError"]
            /\ UNCHANGED observers
    /\ UNCHANGED <<devices, objs, lock, tasks, notif, last_known_state, bus_log,
                   discovered_queue, clock, detected>>
    /\ UNCHANGED scanVars
    /\ UNCHANGED wsVars
    /\ UNCHANGED libVars
    /\ UNCHANGED busVars

Unsubscribe(o) ==
    /\ observers' = observers \ {o}
    /\ UNCHANGED <<devices, objs, lock, tasks, notif, last_known_state, bus_log,
                   discovered_queue, clock, outcome, detected>>
    /\ UNCHANGED scanVars
    /\ UNCHANGED wsVars
    /\ UNCHANGED libVars
    /\ UNCHANGED busVars

\* ------------------------------------------------------ Scan, ScanRepository
\* generate_scan_id(): str(uuid.uuid4()), a value that no earlier call gave;
\* calls is the number of accepted calls so far
generate_scan_id(calls) == calls + 1

\* Scan(id=...): a session that has not been started
NewScan(calls) ==
    [id |-> generate_scan_id(calls), state |-> "idle", discovered_devices |-> {}]

\* scan.start(): the session goes to scanning
ScanStart(s) == [s EXCEPT !.state = "scanning"]

\* scan.stop(): the session goes to stopped
ScanStop(s) == [s EXCEPT !.state = "stopped"]

\* a start_scan that makes a session of its own at every call
AlwaysNewScan(current, calls) == NewScan(calls)

\* scan_repo.get_current() or, when there is none, Scan(id=generate_scan_id())
GetOrCreateScan(current, calls) ==
    IF current = NoScan THEN NewScan(calls) ELSE current

ScanStarted(s) == [type |-> "ScanStarted", scan_id |-> s.id]

ScanStopped(s) ==
    [type |-> "ScanStopped", scan_id |-> s.id,
     devices_found |-> Cardinality(s.discovered_devices)]

\* ------------------------------------------------------ ScanManager.start_scan
\* self._scan_task and not self._scan_task.done()
TaskActive(task) == task \in {"pending", "starting", "looping", "cancelling"}

\* start_scan up to the await of event_bus.publish: the guard, the session
\* started and saved, ScanStarted handed to the bus
StartScanBegin(m) ==
    /\ mgr[m].pc = "idle"
    /\ IF TaskActive(mgr[m].task)
       THEN /\ outcome' = [op |-> "start_scan", by |-> m,
                           result |-> "InvalidScanStateError"]
            /\ UNCHANGED <<scan, bus_log, mgr, scan_calls>>
       ELSE /\ scan_calls < MaxScanCalls
            /\ scan' = ScanStart(GetOrCreateScan(scan, scan_calls))
            /\ bus_log' = Publish(bus_log, ScanStarted(scan'))
            /\ mgr' = [mgr EXCEPT ![m].pc = "starting"]
            /\ scan_calls' = scan_calls + 1
            /\ UNCHANGED outcome
    /\ UNCHANGED <<devices, objs, observers, lock, tasks, notif, last_known_state,
                   discovered_queue, clock, detected, adapter, scanner_kind>>
    /\ UNCHANGED wsVars
    /\ UNCHANGED libVars
    /\ UNCHANGED busVars

\* asyncio.create_task(self.scanner.start_scan()) and the return: create_task
\* takes a coroutine and raises TypeError for an async generator, leaving
\* _scan_task as it was
StartScanFinish(m) ==
    /\ mgr[m].pc = "starting"
    /\ IF scanner_kind = "coroutine"
       THEN /\ mgr' = [mgr EXCEPT ![m] = [pc |-> "idle", task |-> "pending"]]
            /\ outcome' = [op |-> "start_scan", by |-> m, result |-> "ok"]
       ELSE /\ mgr' = [mgr EXCEPT ![m].pc = "idle"]
            /\ outcome' = [op |-> "start_scan", by |-> m, result |-> "TypeError"]
    /\ UNCHANGED <<devices, objs, observers, lock, tasks, notif, last_known_state,
                   bus_log, discovered_queue, clock, detected, scan, adapter,
                   scanner_kind, scan_calls>>
    /\ UNCHANGED wsVars
    /\ UNCHANGED libVars
    /\ UNCHANGED busVars

\* ------------------------------------------- the scanner's background task
\* the task's first run: _scanning = True, _scanner = BleakScanner(...), then
\* the await of _scanner.start()
ScanTaskStart(m) ==
    /\ mgr[m].task = "pending"
    /\ mgr' = [mgr EXCEPT ![m].task = "starting"]
    /\ adapter' = [scanning |-> TRUE, scanner |-> TRUE]
    /\ UNCHANGED <<devices, objs, observers, lock, tasks, notif, last_known_state,
                   bus_log, discovered_queue, clock, outcome, detected, scan,
                   scanner_kind, scan_calls>>
    /\ UNCHANGED wsVars
    /\ UNCHANGED libVars
    /\ UNCHANGED busVars

\* _scanner.start() returned: the task enters "while self._scanning"
ScannerStarted(m) ==
    /\ mgr[m].task = "starting"
    /\ mgr' = [mgr EXCEPT ![m].task = "looping"]
    /\ UNCHANGED <<devices, objs, observers, lock, tasks, notif, last_known_state,
                   bus_log, discovered_queue, clock, outcome, detected, scan,
                   adapter, scanner_kind, scan_calls>>
    /\ UNCHANGED wsVars
    /\ UNCHANGED libVars
    /\ UNCHANGED busVars

\* a cleanup that drops the scanner only while a scan is on
CleanupWhileScanning(ad) == IF ad.scanning THEN [ad EXCEPT !.scanner = FALSE] ELSE ad

\* _cleanup(): the scanner stopped and dropped, the queue emptied
Cleanup(ad) == [ad EXCEPT !.scanner = FALSE]

\* _scanner.start() raised: logged, re-raised, _cleanup() in the finally
ScannerFails(m) ==
    /\ mgr[m].task = "starting"
    /\ mgr' = [mgr EXCEPT ![m].task = "done"]
    /\ adapter' = Cleanup(adapter)
    /\ discovered_queue' = <<>>
    /\ UNCHANGED <<devices, objs, observers, lock, tasks, notif, last_known_state,
                   bus_log, clock, outcome, detected, scan, scanner_kind,
                   scan_calls>>
    /\ UNCHANGED wsVars
    /\ UNCHANGED libVars
    /\ UNCHANGED busVars

\* the loop sees _scanning false and leaves: _cleanup() in the finally
ScanTaskExit(m) ==
    /\ mgr[m].task = "looping"
    /\ ~adapter.scanning
    /\ mgr' = [mgr EXCEPT ![m].task = "done"]
    /\ adapter' = Cleanup(adapter)
    /\ discovered_queue' = <<>>
    /\ UNCHANGED <<devices, objs, observers, lock, tasks, notif, last_known_state,
                   bus_log, clock, outcome, detected, scan, scanner_kind,
                   scan_calls>>
    /\ UNCHANGED wsVars
    /\ UNCHANGED libVars
    /\ UNCHANGED busVars

\* ------------------------------------------------------- ScanManager.stop_scan
\* the condition that rejects stop_scan: not scan or scan.state != SCANNING;
\* first the variant that only asks whether a session exists
NoActiveScanMissingOnly(s) == s = NoScan

NoActiveScan(s) == s = NoScan \/ s.state # "scanning"

\* a stop_scan that publishes ScanStopped first and cancels the task after
PublishThenCancel(m, s) ==
    /\ bus_log' = Publish(bus_log, ScanStopped(s))
    /\ IF TaskActive(mgr[m].task)
       THEN mgr' = [mgr EXCEPT ![m] =
                      [pc |-> "joining",
                       task |-> IF @.task = "pending" THEN "done" ELSE "cancelling"]]
       ELSE mgr' = [mgr EXCEPT ![m].pc = "publishing"]

\* stop_scan from "if self._scan_task and not self._scan_task.done()" to the
\* next await: a live task is cancelled and awaited, otherwise ScanStopped is
\* handed to the bus
CancelOrPublish(m, s) ==
    IF TaskActive(mgr[m].task)
    THEN /\ mgr' = [mgr EXCEPT ![m] =
                      [pc |-> "joining",
                       task |-> IF @.task = "pending" THEN "done" ELSE "cancelling"]]
         /\ UNCHANGED bus_log
    ELSE /\ mgr' = [mgr EXCEPT ![m].pc = "publishing"]
         /\ bus_log' = Publish(bus_log, ScanStopped(s))

\* stop_scan up to its first await that suspends: the guard, the session
\* stopped and saved, scanner.stop_scan() clearing _scanning and entering
\* _cleanup(), which awaits _scanner.stop() when there is a scanner
StopScanBegin(m) ==
    /\ mgr[m].pc = "idle"
    /\ IF NoActiveScan(scan)
       THEN /\ outcome' = [op |-> "stop_scan", by |-> m,
                           result |-> "InvalidScanStateError"]
            /\ UNCHANGED <<scan, adapter, discovered_queue, bus_log, mgr, scan_calls>>
       ELSE /\ scan_calls < MaxScanCalls
            /\ scan' = ScanStop(scan)
            /\ adapter' = [adapter EXCEPT !.scanning = FALSE]
            /\ scan_calls' = scan_calls + 1
            /\ IF adapter.scanner
               THEN /\ mgr' = [mgr EXCEPT ![m].pc = "cleanup"]
                    /\ UNCHANGED <<discovered_queue, bus_log>>
               ELSE /\ discovered_queue' = <<>>
                    /\ CancelOrPublish(m, scan')
            /\ UNCHANGED outcome
    /\ UNCHANGED <<devices, objs, observers, lock, tasks, notif, last_known_state,
                   clock, detected, scanner_kind>>
    /\ UNCHANGED wsVars
    /\ UNCHANGED libVars
    /\ UNCHANGED busVars

\* _scanner.stop() returned: the rest of _cleanup(), then the task's cancel
StopScanCleanup(m) ==
    /\ mgr[m].pc = "cleanup"
    /\ adapter' = Cleanup(adapter)
    /\ discovered_queue' = <<>>
    /\ CancelOrPublish(m, scan)
    /\ UNCHANGED <<devices, objs, observers, lock, tasks, notif, last_known_state,
                   clock, outcome, detected, scan, scanner_kind, scan_calls>>
    /\ UNCHANGED wsVars
    /\ UNCHANGED libVars
    /\ UNCHANGED busVars

\* "await self._scan_task" returned: a task cancelled inside its body has run
\* its finally (_cleanup()); CancelledError is swallowed; ScanStopped is
\* handed to the bus
StopScanJoin(m) ==
    /\ mgr[m].pc = "joining"
    /\ IF mgr[m].task = "cancelling"
       THEN /\ adapter' = Cleanup(adapter)
            /\ discovered_queue' = <<>>
       ELSE UNCHANGED <<adapter, discovered_queue>>
    /\ mgr' = [mgr EXCEPT ![m] = [pc |-> "publishing", task |-> "done"]]
    /\ bus_log' = Publish(bus_log, ScanStopped(scan))
    /\ UNCHANGED <<devices, objs, observers, lock, tasks, notif, last_known_state,
                   clock, outcome, detected, scan, scanner_kind, scan_calls>>
    /\ UNCHANGED wsVars
    /\ UNCHANGED libVars
    /\ UNCHANGED busVars

\* event_bus.publish(ScanStopped(...)) returned: stop_scan returns
StopScanFinish(m) ==
    /\ mgr[m].pc = "publishing"
    /\ mgr' = [mgr EXCEPT ![m].pc = "idle"]
    /\ outcome' = [op |-> "stop_scan", by |-> m, result |-> "ok"]
    /\ UNCHANGED <<devices, objs, observers, lock, tasks, notif, last_known_state,
                   bus_log, discovered_queue, clock, detected, scan, adapter,
                   scanner_kind, scan_calls>>
    /\ UNCHANGED wsVars
    /\ UNCHANGED libVars
    /\ UNCHANGED busVars

\* "await self.scanner.stop_scan()" raises: stop_scan has no try around it,
\* the exception leaves the call with the session saved as stopped, the task
\* not cancelled and nothing published
ScannerStopRaises(m) ==
    /\ mgr[m].pc = "cleanup"
    /\ mgr' = [mgr EXCEPT ![m].pc = "idle"]
    /\ outcome' = [op |-> "stop_scan", by |-> m, result |-> "ScannerError"]
    /\ UNCHANGED <<devices, objs, observers, lock, tasks, notif, last_known_state,
                   bus_log, discovered_queue, clock, detected, scan, adapter,
                   scanner_kind, scan_calls>>
    /\ UNCHANGED wsVars
    /\ UNCHANGED libVars
    /\ UNCHANGED busVars

\* ------------------------------------------------ DomainEvent, DeviceEvent
\* occurred_at has init=False: __init__ takes no occurred_at and raises
\* TypeError when one is passed
InitAccepts(supplied) == supplied = NotSupplied

\* occurred_at = field(default_factory=lambda: <the wall clock in ms>)
DomainEvent(type, now) == [type |-> type, occurred_at |-> now]

\* the wall clock moves on
Tick ==
    /\ clock < MaxTime
    /\ clock' = clock + 1
    /\ UNCHANGED <<devices, objs, observers, lock, tasks, notif, last_known_state,
                   bus_log, discovered_queue, outcome, detected, scanVars, wsVars, libVars,
                   busVars>>

\* event_bus.publish(SomeEvent(...)): the event is constructed in the call's
\* argument and handed to the bus
PublishEvent(type, supplied) ==
    /\ Len(bus_log) < MaxEvents
    /\ IF InitAccepts(supplied)
       THEN /\ bus_log' = Publish(bus_log, DomainEvent(type, clock))
            /\ outcome' = [op |-> "publish", by |-> 0, result |-> "ok"]
       ELSE /\ outcome' = [op |-> "publish", by |-> 0, result |-> "TypeError"]
            /\ UNCHANGED bus_log
    /\ UNCHANGED <<devices, objs, observers, lock, tasks, notif, last_known_state,
                   discovered_queue, clock, detected, scanVars, wsVars, libVars,
                   busVars>>

\* ---------------------------------------------------- WebSocketManager
\* a message stamped with the time of the send
MessageTimestampAtSend(event, now) == now

\* "timestamp": event.data["occurred_at"]
MessageTimestamp(event, now) == event.occurred_at

\* the handler of the event's type broadcasts it: send_json to one connection,
\* which has received the earlier events; sent_at is the time of the send
Broadcast(c) ==
    /\ Len(sent[c]) < Len(bus_log)
    /\ LET event == bus_log[Len(sent[c]) + 1]
       IN  sent' = [sent EXCEPT ![c] =
                      Append(@, [type |-> event.type,
                                 timestamp |-> MessageTimestamp(event, clock),
                                 sent_at |-> clock])]
    /\ UNCHANGED <<devices, objs, observers, lock, tasks, notif, last_known_state,
                   bus_log, discovered_queue, clock, outcome, detected, scanVars,
                   libVars, busVars>>

\* ------------------------------------------------- bytes, Optional[int]
\* data[i]: the byte at index i (from 0), IndexError beyond the end
Index(data, i) ==
    IF i < Len(data)
    THEN [raised |-> FALSE, value |-> data[i + 1]]
    ELSE [raised |-> TRUE, value |-> 0]

\* data[lo:hi]: a slice is cut to the bytes there are and never raises
Slice(data, lo, hi) ==
    LET top == IF hi < Len(data) THEN hi ELSE Len(data)
    IN  IF lo >= top THEN <<>> ELSE SubSeq(data, lo + 1, top)

\* a Python expression that gave a bool
Bool(b) == [raised |-> FALSE, value |-> b]

\* x == v, where x is the outcome of an indexing
Eq(x, v) == [raised |-> x.raised, value |-> ~x.raised /\ x.value = v]

\* a and b: b is evaluated only when a is true
And(a, b) == IF a.raised \/ ~a.value THEN a ELSE b

\* Optional[int]: None, or an int
Absent == {}
Some(v) == {v}
ValueOf(opt) == CHOOSE v \in opt : TRUE

\* ------------------------------------------------------- IBeaconDecoder
IBEACON_TYPE == 2
IBEACON_LENGTH == 21
\* the shortest payload can_decode accepts
MinBeaconLen == 23

\* the predicate without its length test
can_decode_unchecked(company_id, data) ==
    And(Bool(company_id = IBEACON_COMPANY_ID),
        And(Eq(Index(data, 0), IBEACON_TYPE),
            Eq(Index(data, 1), IBEACON_LENGTH)))

can_decode(company_id, data) ==
    And(Bool(company_id = IBEACON_COMPANY_ID),
        And(Bool(Len(data) >= MinBeaconLen),
            And(Eq(Index(data, 0), IBEACON_TYPE),
                Eq(Index(data, 1), IBEACON_LENGTH))))

\* format "b" read as an unsigned byte
Unsigned8(byte) == byte

\* format "b" of struct.unpack: a signed byte
Signed8(byte) == IF byte >= 128 THEN byte - 256 ELSE byte

\* format "H" with ">": an unsigned 16-bit value, most significant byte first
BigEndian16(hi, lo) == 256 * hi + lo

\* struct.unpack(">HHb", buffer): struct.error unless the buffer has 5 bytes
Unpack_HHb(buffer) ==
    IF Len(buffer) # 5
    THEN [raised |-> TRUE, value |-> <<0, 0, 0>>]
    ELSE [raised |-> FALSE,
          value |-> <<BigEndian16(buffer[1], buffer[2]),
                      BigEndian16(buffer[3], buffer[4]),
                      Signed8(buffer[5])>>]

\* uuid.UUID(bytes=...): ValueError unless there are 16 bytes
UUID(bytes) ==
    IF Len(bytes) # 16
    THEN [raised |-> TRUE, value |-> <<>>]
    ELSE [raised |-> FALSE, value |-> bytes]

\* BeaconAdvertisement.__post_init__: measured_power_dbm and tx_power mirror
\* each other, measured_power_dbm winning when both are given
MeasuredPower(measured_power_dbm, tx_power) ==
    IF measured_power_dbm = Absent THEN tx_power ELSE measured_power_dbm

\* decode returns None
NoAdvertisement == [kind |-> "None"]

IBeaconAdvertisement(raw_data, beacon_uuid, major, minor, power) ==
    [kind |-> "ibeacon", raw_data |-> raw_data, uuid |-> beacon_uuid,
     major |-> major, minor |-> minor,
     measured_power_dbm |-> MeasuredPower(Some(power), Some(power)),
     tx_power |-> MeasuredPower(Some(power), Some(power))]

\* IBeaconDecoder.decode: what it returns, or that it raised
decode(company_id, data) ==
    LET can == can_decode(company_id, data)
        uuid_bytes == Slice(data, 2, 18)
        fields == Unpack_HHb(Slice(data, 18, 23))
        beacon_uuid == UUID(uuid_bytes)
    IN  IF can.raised THEN [kind |-> "raised"]
        ELSE IF ~can.value THEN NoAdvertisement
        ELSE IF fields.raised \/ beacon_uuid.raised THEN NoAdvertisement
        ELSE IBeaconAdvertisement(data, beacon_uuid.value, fields.value[1],
                                  fields.value[2], fields.value[3])

\* ------------------------------------ BeaconAdvertisement.estimate_distance
\* the path-loss exponent is given in hundredths
ExponentScale == 100
\* log10 of the largest float (1.797e308), in ten-thousandths: pow(10.0, x)
\* raises OverflowError for a larger x
Log10FloatMax == 3082547

\* pow(10.0, (A - rssi_dbm) / (10.0 * path_loss_exponent)) raises
PowOverflows(A, rssi_dbm, path_loss_exponent) ==
    (A - rssi_dbm) * ExponentScale * 1000 > Log10FloatMax * path_loss_exponent

\* -100 <= A <= -10
InPlausibleRange(A) == -100 <= A /\ A <= -10

estimate_distance(measured_power_dbm, rssi_dbm, path_loss_exponent) ==
    IF measured_power_dbm = Absent \/ path_loss_exponent <= 0
    THEN [kind |-> "None"]
    ELSE LET A == ValueOf(measured_power_dbm)
         IN  IF ~InPlausibleRange(A) THEN [kind |-> "None"]
             ELSE IF rssi_dbm >= 0 THEN [kind |-> "None"]
             ELSE IF PowOverflows(A, rssi_dbm, path_loss_exponent)
             THEN [kind |-> "OverflowError"]
             ELSE [kind |-> "distance",
                   log10_num |-> (A - rssi_dbm) * ExponentScale,
                   log10_den |-> 10 * path_loss_exponent]

\* ------------------------------------------------ ManufacturerDataDecoder
\* company_identifiers.yaml as loaded by _load_manufacturers
MANUFACTURERS == [id \in {IBEACON_COMPANY_ID} |-> "Apple, Inc."]

LowerHexDigits == <<"0", "1", "2", "3", "4", "5", "6", "7", "8", "9",
                    "a", "b", "c", "d", "e", "f">>
UpperHexDigits == <<"0", "1", "2", "3", "4", "5", "6", "7", "8", "9",
                    "A", "B", "C", "D", "E", "F">>

\* bytes.hex(): two lower-case digits for each byte
RECURSIVE Hex(_)
Hex(data) ==
    IF data = <<>> THEN ""
    ELSE LowerHexDigits[(Head(data) \div 16) + 1] \o LowerHexDigits[(Head(data) % 16) + 1]
         \o Hex(Tail(data))

\* f"{company_id:04X}": upper-case digits, padded with zeros to four
Format04X(company_id) ==
    UpperHexDigits[((company_id \div 4096) % 16) + 1]
    \o UpperHexDigits[((company_id \div 256) % 16) + 1]
    \o UpperHexDigits[((company_id \div 16) % 16) + 1]
    \o UpperHexDigits[(company_id % 16) + 1]

\* self.MANUFACTURERS.get(company_id, ManufacturerInfo(..., "Unknown (0x....)")),
\* of which the company name
CompanyName(company_id) ==
    IF company_id \in DOMAIN MANUFACTURERS
    THEN MANUFACTURERS[company_id]
    ELSE "Unknown (0x" \o Format04X(company_id) \o ")"

\* DecodedAvertisement(raw_data=data, description=f"{name} - Raw: {data.hex()}")
GenericAdvertisement(company_id, data) ==
    [kind |-> "generic", raw_data |-> data,
     description |-> CompanyName(company_id) \o " - Raw: " \o Hex(data)]

\* decoder.can_decode(company_id, data) of a registered decoder
DecoderCanDecode(decoder, company_id, data) ==
    CASE decoder.can_decode = "code" -> can_decode(company_id, data)
      [] decoder.can_decode = "raises" -> [raised |-> TRUE, value |-> FALSE]
      [] decoder.can_decode = "true" -> Bool(TRUE)
      [] OTHER -> Bool(FALSE)

\* decoder.decode(company_id, data) of a registered decoder
DecoderDecode(decoder, company_id, data) ==
    CASE decoder.decode = "code" -> decode(company_id, data)
      [] decoder.decode = "raises" -> [kind |-> "raised"]
      [] decoder.decode = "result" ->
            [kind |-> "custom", raw_data |-> data, by |-> decoder.class]
      [] OTHER -> NoAdvertisement

RECURSIVE Dispatch(_, _, _, _)

\* a loop that goes on to the later decoders after a decoder was called
NoBreak(decoders, i, company_id, data) ==
    Dispatch(decoders, i + 1, company_id, data)

\* break: the loop ends with the decoder that was called
Break(decoders, i, company_id, data) ==
    [raised |-> FALSE, advertisement |-> NoAdvertisement, trace |-> <<>>]

\* "for decoder in self._decoders" from the i-th decoder on: the decoders
\* asked and called, in order, and what decoded_adv is at the end; an
\* exception of can_decode leaves the loop and the method, an exception of
\* decode is logged and leaves decoded_adv None
Dispatch(decoders, i, company_id, data) ==
    IF i > Len(decoders)
    THEN [raised |-> FALSE, advertisement |-> NoAdvertisement, trace |-> <<>>]
    ELSE LET can == DecoderCanDecode(decoders[i], company_id, data)
             consulted == [method |-> "can_decode", decoder |-> i]
         IN  IF can.raised
             THEN [raised |-> TRUE, advertisement |-> NoAdvertisement,
                   trace |-> <<consulted>>]
             ELSE IF can.value
             THEN LET decoded == DecoderDecode(decoders[i], company_id, data)
                      decoded_adv == IF decoded.kind = "raised"
                                     THEN NoAdvertisement ELSE decoded
                      after == Break(decoders, i, company_id, data)
                  IN  [raised |-> after.raised,
                       advertisement |-> IF after.advertisement = NoAdvertisement
                                         THEN decoded_adv ELSE after.advertisement,
                       trace |-> <<consulted, [method |-> "decode", decoder |-> i]>>
                                   \o after.trace]
             ELSE LET rest == Dispatch(decoders, i + 1, company_id, data)
                  IN  [rest EXCEPT !.trace = <<consulted>> \o @]

\* "if not decoded_adv": the generic advertisement takes the place of None
OrGeneric(decoded_adv, company_id, data) ==
    IF decoded_adv = NoAdvertisement
    THEN GenericAdvertisement(company_id, data)
    ELSE decoded_adv

\* the body of "for company_id, data in manufacturer_data.items()" for one
\* entry: the DecodedManufacturerData appended to results
DecodeEntry(decoders, entry) ==
    LET company_id == entry[1]
        data == entry[2]
        dispatched == Dispatch(decoders, 1, company_id, data)
    IN  [raised |-> dispatched.raised,
         trace |-> dispatched.trace,
         result |-> [company |-> [company_id |-> company_id,
                                  company_name |-> CompanyName(company_id)],
                     advertisement |-> OrGeneric(dispatched.advertisement,
                                                 company_id, data),
                     raw_data |-> data]]

\* ManufacturerDataDecoder.decode over the entries of the dict, in the order of
\* items(): the results, the decoders asked and called for each entry, and
\* whether an exception left the method
RECURSIVE DecodeAll(_, _)
DecodeAll(decoders, entries) ==
    IF entries = <<>>
    THEN [raised |-> FALSE, results |-> <<>>, traces |-> <<>>]
    ELSE LET first == DecodeEntry(decoders, Head(entries))
             rest == DecodeAll(decoders, Tail(entries))
         IN  IF first.raised
             THEN [raised |-> TRUE, results |-> <<>>, traces |-> <<first.trace>>]
             ELSE [raised |-> rest.raised,
                   results |-> IF rest.raised THEN <<>> ELSE <<first.result>> \o rest.results,
                   traces |-> <<first.trace>> \o rest.traces]

\* a registration that puts the new decoder in front
RegisterFirst(decoders, decoder) == <<decoder>> \o decoders

\* self._decoders.append(decoder)
Register(decoders, decoder) == Append(decoders, decoder)

\* ------------------------------------------------- calls into the library
register_decoder(decoder) ==
    /\ Len(_decoders) < MaxDecoders
    /\ _decoders' = Register(_decoders, decoder)
    /\ call' = [op |-> "register_decoder", decoder |-> decoder]
    /\ UNCHANGED <<devices, objs, observers, lock, tasks, notif, last_known_state,
                   bus_log, discovered_queue, clock, outcome, detected, scanVars,
                   wsVars, busVars>>

\* ManufacturerDataDecoder.decode(manufacturer_data); the dict is given by its
\* items in order
DecodeCall(entries) ==
    /\ call' = [op |-> "decode", manufacturer_data |-> entries,
                decoders |-> _decoders,
                returned |-> DecodeAll(_decoders, entries)]
    /\ UNCHANGED <<devices, objs, observers, lock, tasks, notif, last_known_state,
                   bus_log, discovered_queue, clock, outcome, detected, scanVars,
                   wsVars, _decoders, busVars>>

\* IBeaconDecoder().can_decode(company_id, data)
CanDecodeCall(company_id, data) ==
    /\ call' = [op |-> "can_decode", company_id |-> company_id, data |-> data,
                returned |-> can_decode(company_id, data)]
    /\ UNCHANGED <<devices, objs, observers, lock, tasks, notif, last_known_state,
                   bus_log, discovered_queue, clock, outcome, detected, scanVars,
                   wsVars, _decoders, busVars>>

\* IBeaconDecoder().decode(company_id, data)
BeaconDecodeCall(company_id, data) ==
    /\ call' = [op |-> "beacon_decode", company_id |-> company_id, data |-> data,
                returned |-> decode(company_id, data)]
    /\ UNCHANGED <<devices, objs, observers, lock, tasks, notif, last_known_state,
                   bus_log, discovered_queue, clock, outcome, detected, scanVars,
                   wsVars, _decoders, busVars>>

\* BeaconAdvertisement(measured_power_dbm=...).estimate_distance(rssi_dbm,
\* path_loss_exponent), the exponent in hundredths
EstimateDistanceCall(measured_power_dbm, rssi_dbm, path_loss_exponent) ==
    /\ call' = [op |-> "estimate_distance",
                measured_power_dbm |-> measured_power_dbm,
                rssi_dbm |-> rssi_dbm,
                path_loss_exponent |-> path_loss_exponent,
                returned |-> estimate_distance(measured_power_dbm, rssi_dbm,
                                               path_loss_exponent)]
    /\ UNCHANGED <<devices, objs, observers, lock, tasks, notif, last_known_state,
                   bus_log, discovered_queue, clock, outcome, detected, scanVars,
                   wsVars, _decoders, busVars>>

\* ------------------------------------------------------- specifications
\* The repository and its fan-out under concurrent callers: every operation
\* of the store, detections that differ in address and signal strength.
StoreAdvertisements ==
    {adv \in Advertisements :
        /\ adv.name = None /\ adv.local_name = None
        /\ adv.manufacturer_data = EmptyMd
        /\ adv.rssi \in {-70, -60}}

Next ==
    \/ \E t \in Tasks, adv \in StoreAdvertisements : ProcessDetectionGet(t, adv)
    \/ \E t \in Tasks : ProcessDetectionSave(t)
    \/ \E o \in Observers : ObserverStart(o)
    \/ \E o \in Observers : ObserverReturn(o)
    \/ \E o \in Observers : ObserverRaise(o)
    \/ NotifyJoin
    \/ \E a \in Addresses : Delete(a)
    \/ Clear
    \/ \E o \in Observers : Subscribe(o)
    \/ \E o \in Observers : Unsubscribe(o)

Spec == Init /\ [][Next]_vars

\* what the event loop does for a store call in progress: each callback task
\* runs and ends, by returning or by raising, and the awaited gather returns
CallbackSteps ==
    \/ \E o \in Observers : ObserverStart(o)
    \/ \E o \in Observers : ObserverReturn(o) \/ ObserverRaise(o)
    \/ NotifyJoin

\* the store's calls with observers that are subscribed and stay so
NextStore ==
    \/ \E t \in Tasks, adv \in StoreAdvertisements : ProcessDetectionGet(t, adv)
    \/ \E t \in Tasks : ProcessDetectionSave(t)
    \/ CallbackSteps
    \/ \E a \in Addresses : Delete(a)
    \/ Clear
    \/ \E o \in Observers : Subscribe(o)

\* The store under the event loop's scheduling: callbacks terminate, and a
\* task that waits for the asyncio.Lock gets it, the lock waking its waiters
\* in the order they came
SpecStoreFair ==
    /\ Init
    /\ [][NextStore]_vars
    /\ WF_vars(CallbackSteps)
    /\ \A t \in Tasks : SF_vars(ProcessDetectionSave(t))

\* The detection pipeline as wired by setup_repository_observers (the
\* event-publishing observer subscribed), over every advertisement of one
\* device.
DetectAdvertisements == {adv \in Advertisements : adv.address = "a1"}

InitWired ==
    /\ devices = [a \in Addresses |-> NoDev]
    /\ objs = <<>>
    /\ observers = {"pub"}
    /\ lock = Free
    /\ tasks = [t \in Tasks |-> IdleTask]
    /\ notif = NoNotif
    /\ last_known_state = [a \in Addresses |-> [known |-> FALSE, rssi |-> 0, name |-> None]]
    /\ bus_log = <<>>
    /\ discovered_queue = <<>>
    /\ clock = 0
    /\ outcome = NoOutcome
    /\ detected = NoAdv
    /\ scan = NoScan
    /\ mgr = [m \in Managers |-> IdleManager]
    /\ adapter = [scanning |-> FALSE, scanner |-> FALSE]
    /\ scanner_kind = "async_generator"
    /\ scan_calls = 0
    /\ sent = [c \in Connections |-> <<>>]
    /\ _decoders = <<IBeaconDecoder>>
    /\ call = NoCall
    /\ handlers = {}
    /\ publishing = NoPublishing

NextDetect ==
    \/ \E t \in Tasks, adv \in DetectAdvertisements : ProcessDetectionGet(t, adv)
    \/ \E t \in Tasks : ProcessDetectionSave(t)
    \/ \E o \in Observers : ObserverStart(o)
    \/ \E o \in Observers : ObserverReturn(o)
    \/ NotifyJoin

SpecDetect == InitWired /\ [][NextDetect]_vars

\* advertisements of one address that differ in name and RSSI
LateAdvertisements ==
    {adv \in DetectAdvertisements :
        adv.local_name = None /\ adv.manufacturer_data = EmptyMd}

\* Detections saved to a store whose event-publishing observer is subscribed
\* at some time, before or after the first saves
NextLate ==
    \/ \E t \in Tasks, adv \in LateAdvertisements : ProcessDetectionGet(t, adv)
    \/ \E t \in Tasks : ProcessDetectionSave(t)
    \/ Subscribe("pub")
    \/ ObserverStart("pub")
    \/ ObserverReturn("pub")
    \/ NotifyJoin

SpecLate == Init /\ [][NextLate]_vars

\* The scan lifecycle: the store as wired and at rest, the scanner either of
\* the two kinds, the managers called in any order
InitScan ==
    /\ devices = [a \in Addresses |-> NoDev]
    /\ objs = <<>>
    /\ observers = {"pub"}
    /\ lock = Free
    /\ tasks = [t \in Tasks |-> IdleTask]
    /\ notif = NoNotif
    /\ last_known_state = [a \in Addresses |-> [known |-> FALSE, rssi |-> 0, name |-> None]]
    /\ bus_log = <<>>
    /\ discovered_queue = <<>>
    /\ clock = 0
    /\ outcome = NoOutcome
    /\ detected = NoAdv
    /\ scan = NoScan
    /\ mgr = [m \in Managers |-> IdleManager]
    /\ adapter = [scanning |-> FALSE, scanner |-> FALSE]
    /\ scanner_kind \in ScannerKinds
    /\ scan_calls = 0
    /\ sent = [c \in Connections |-> <<>>]
    /\ _decoders = <<IBeaconDecoder>>
    /\ call = NoCall
    /\ handlers = {}
    /\ publishing = NoPublishing

NextScan ==
    \/ \E m \in Managers : StartScanBegin(m)
    \/ \E m \in Managers : StartScanFinish(m)
    \/ \E m \in Managers : ScanTaskStart(m)
    \/ \E m \in Managers : ScannerStarted(m)
    \/ \E m \in Managers : ScannerFails(m)
    \/ \E m \in Managers : ScanTaskExit(m)
    \/ \E m \in Managers : StopScanBegin(m)
    \/ \E m \in Managers : StopScanCleanup(m)
    \/ \E m \in Managers : StopScanJoin(m)
    \/ \E m \in Managers : StopScanFinish(m)

SpecScan == InitScan /\ [][NextScan]_vars

\* Events and their delivery: events of the subscribed types are published
\* while the wall clock runs, and the websocket manager relays them to its
\* connections, each at its own pace
NextEvents ==
    \/ Tick
    \/ \E type \in EventTypes, supplied \in {NotSupplied} \cup (0 .. MaxTime) :
          PublishEvent(type, supplied)
    \/ \E c \in Connections : Broadcast(c)

SpecEvents == InitWired /\ [][NextEvents]_vars

\* The store as wired with handlers subscribed on the bus for the device
\* events: detections are saved, the observer publishes, the handlers run
InitBus ==
    /\ devices = [a \in Addresses |-> NoDev]
    /\ objs = <<>>
    /\ observers = {"pub"}
    /\ lock = Free
    /\ tasks = [t \in Tasks |-> IdleTask]
    /\ notif = NoNotif
    /\ last_known_state = [a \in Addresses |-> [known |-> FALSE, rssi |-> 0, name |-> None]]
    /\ bus_log = <<>>
    /\ discovered_queue = <<>>
    /\ clock = 0
    /\ outcome = NoOutcome
    /\ detected = NoAdv
    /\ scan = NoScan
    /\ mgr = [m \in Managers |-> IdleManager]
    /\ adapter = [scanning |-> FALSE, scanner |-> FALSE]
    /\ scanner_kind = "async_generator"
    /\ scan_calls = 0
    /\ sent = [c \in Connections |-> <<>>]
    /\ _decoders = <<IBeaconDecoder>>
    /\ call = NoCall
    /\ handlers = Handlers
    /\ publishing = NoPublishing

NextBus ==
    \/ \E t \in Tasks, adv \in StoreAdvertisements : ProcessDetectionGet(t, adv)
    \/ \E t \in Tasks : ProcessDetectionSave(t)
    \/ \E o \in Observers : ObserverStart(o)
    \/ \E o \in Observers : ObserverReturn(o)
    \/ \E h \in Handlers : HandlerRuns(h)
    \/ \E h \in Handlers : HandlerFails(h)
    \/ \E raises \in BOOLEAN : PublishEnds(raises)
    \/ NotifyJoin

SpecBus == InitBus /\ [][NextBus]_vars

\* the BleakScanner built at start_scan calls _detection_callback for as long
\* as the adapter holds it
Detection(t, adv) == adapter.scanner /\ ProcessDetectionGet(t, adv)

\* the one ScanManager the pipeline's scans go through
ScanOwner == CHOOSE m \in Managers : TRUE

\* The pipeline: scans are started and stopped through one manager while the
\* scanner reports detections, which are saved to the store as wired
NextPipeline ==
    \/ StartScanBegin(ScanOwner)
    \/ StartScanFinish(ScanOwner)
    \/ ScanTaskStart(ScanOwner)
    \/ ScannerStarted(ScanOwner)
    \/ StopScanBegin(ScanOwner)
    \/ StopScanCleanup(ScanOwner)
    \/ StopScanJoin(ScanOwner)
    \/ StopScanFinish(ScanOwner)
    \/ \E t \in Tasks, adv \in StoreAdvertisements : Detection(t, adv)
    \/ \E t \in Tasks : ProcessDetectionSave(t)
    \/ \E o \in Observers : ObserverStart(o)
    \/ \E o \in Observers : ObserverReturn(o)
    \/ NotifyJoin

SpecPipeline == InitScan /\ [][NextPipeline]_vars

\* what the event loop does once it can: the awaits of a call in progress
\* return and the scanner task runs
LoopSteps(m) ==
    \/ StartScanFinish(m)
    \/ ScanTaskStart(m)
    \/ ScannerStarted(m)
    \/ StopScanCleanup(m)
    \/ StopScanJoin(m)
    \/ StopScanFinish(m)

\* Scans started and stopped through each manager with a scanner whose
\* stop_scan may raise; the event loop runs every step that is ready
NextStop ==
    \/ \E m \in Managers : StartScanBegin(m)
    \/ \E m \in Managers : StopScanBegin(m)
    \/ \E m \in Managers : ScannerStopRaises(m)
    \/ \E m \in Managers : ScannerFails(m)
    \/ \E m \in Managers : ScanTaskExit(m)
    \/ \E m \in Managers : LoopSteps(m)

SpecStop == InitScan /\ [][NextStop]_vars /\ \A m \in Managers : WF_vars(LoopSteps(m))

\* an iBeacon payload: the two marker bytes, 16 bytes of UUID that differ
\* from one another, major, minor and measured power
BeaconPayload(uuid0, major_hi, major_lo, minor_hi, minor_lo, power) ==
    <<IBEACON_TYPE, IBEACON_LENGTH>>
    \o [i \in 1 .. 16 |-> (uuid0 + i) % 256]
    \o <<major_hi, major_lo, minor_hi, minor_lo, power>>

SamplePayload == BeaconPayload(0, 1, 2, 3, 4, 197)
ShortPayload == <<IBEACON_TYPE, IBEACON_LENGTH, 171>>
\* a vendor id that company_identifiers.yaml does not list
UnknownCompany == 65535

\* decoders that can be registered: an AdvertisementDecoder is given by what
\* its can_decode and its decode do when called
CustomDecoders ==
    [class : {"D1", "D2"}, can_decode : {"true", "false", "raises"},
     decode : {"result", "None", "raises"}]

RegistryCompanies == {IBEACON_COMPANY_ID, UnknownCompany}
RegistryPayloads == {SamplePayload, ShortPayload}
\* manufacturer_data.items(): a dict has each key once
ManufacturerData ==
    {<<>>}
    \cup {<<<<c, d>>>> : c \in RegistryCompanies, d \in RegistryPayloads}
    \cup {entries \in (RegistryCompanies \X RegistryPayloads)
                          \X (RegistryCompanies \X RegistryPayloads) :
             entries[1][1] # entries[2][1]}

\* The decoder registry: decoders are registered after the built-in one, and
\* vendor payload maps are decoded
NextRegistry ==
    \/ \E decoder \in CustomDecoders : register_decoder(decoder)
    \/ \E entries \in ManufacturerData : DecodeCall(entries)

SpecRegistry == InitWired /\ [][NextRegistry]_vars

BeaconCompanies == {IBEACON_COMPANY_ID, IBEACON_COMPANY_ID + 1}
WellFormedPayloads ==
    {BeaconPayload(uuid0, major_hi, major_lo, minor_hi, minor_lo, power) :
        uuid0 \in {0, 240}, major_hi \in {0, 1, 255}, major_lo \in {0, 255},
        minor_hi \in {0, 2}, minor_lo \in {3, 255},
        power \in {0, 127, 128, 197, 255}}
\* payloads with more bytes than the beacon has
LongPayloads == {data \o <<9, 9>> : data \in WellFormedPayloads}
\* payloads cut short, and payloads with a wrong marker byte
BrokenPayloads ==
    {Slice(SamplePayload, 0, n) : n \in {0, 1, 2, 22}}
    \cup {[SamplePayload EXCEPT ![1] = 3], [SamplePayload EXCEPT ![2] = 20],
          [SamplePayload EXCEPT ![1] = IBEACON_LENGTH, ![2] = IBEACON_TYPE]}
BeaconPayloads == WellFormedPayloads \cup LongPayloads \cup BrokenPayloads

\* The beacon decoder on its own: the predicate and decode over payloads of
\* every shape
NextBeacon ==
    \/ \E company_id \in BeaconCompanies, data \in BeaconPayloads :
          CanDecodeCall(company_id, data)
    \/ \E company_id \in BeaconCompanies, data \in BeaconPayloads :
          BeaconDecodeCall(company_id, data)

SpecBeacon == InitWired /\ [][NextBeacon]_vars

MeasuredPowers == {Absent} \cup {Some(A) : A \in {-101, -100, -59, -10, -9, 0}}
DistanceRssi == {-100, -70, -1, 0, 5}
\* path-loss exponents from -1.0 to 3.5, in hundredths
PathLossExponents == {-100, 0, 2, 3, 160, 200, 350}

\* Distance estimation over measured powers, signal strengths and exponents
NextDistance ==
    \E A \in MeasuredPowers, rssi_dbm \in DistanceRssi, n \in PathLossExponents :
        EstimateDistanceCall(A, rssi_dbm, n)

SpecDistance == InitWired /\ [][NextDistance]_vars

\* --------------------------------------------------------------- claims
\* a step in which detection task t enters save (takes the lock and writes)
SaveStep(t) == tasks[t].pc = "save" /\ tasks'[t].pc # "save"
\* a step in which the store call that holds the lock returns to its caller
ReturnStep == notif.kind # "none" /\ notif'.kind = "none"

\* C1: the store keeps one snapshot per address under its own key; a save of
\* an address that is not stored spawns on_device_created once for each
\* subscribed observer, and a save of a stored address is an update, whatever
\* the saving task saw when it looked the address up.
C1_CreatedOncePerAddress ==
    [][/\ \A a \in Addresses : devices'[a] # NoDev => objs'[devices'[a]].address = a
       /\ \A t \in Tasks : SaveStep(t) =>
            LET dev == tasks[t].dev
                a == objs[dev].address
            IN  /\ devices'[a] = dev
                /\ observers # {} =>
                     /\ notif'.kind = (IF devices[a] = NoDev THEN "created" ELSE "updated")
                     /\ notif'.address = a
                     /\ notif'.device = dev
                     /\ notif'.units = [o \in observers |-> "spawned"]]_vars

\* C1 witness: a task that saw the address absent and built a new Device
\* finds it stored when it saves; its save is being notified as an update.
C1_Witness ==
    /\ notif.kind = "updated"
    /\ notif.caller \in Tasks
    /\ ~tasks[notif.caller].found
    /\ \E o \in DOMAIN notif.units : notif.units[o] = "running"

\* the advertisement leaves the stored device as it is, by the claim's terms
SameAsStored(adv) ==
    /\ devices[adv.address] # NoDev
    /\ LET e == objs[devices[adv.address]]
       IN  /\ Abs(e.rssi - adv.rssi) < _rssi_change_threshold
           /\ Or(adv.name, adv.local_name) = e.name
           /\ adv.manufacturer_data = e.manufacturer_data

\* C2: a detection of a stored address with an RSSI delta below the
\* threshold, the same name and the same payload map changes nothing: no
\* observer task, no event, no field of the stored device, nothing queued.
C2_InsignificantIsNoOp ==
    [][\A t \in Tasks :
          (SameAsStored(detected') /\ ProcessDetectionGet(t, detected')) =>
              UNCHANGED <<devices, objs, observers, lock, tasks, notif,
                          last_known_state, bus_log, discovered_queue, clock>>]_vars

\* C2 witness: the only device ever built is stored, and the latest
\* detection had another RSSI, less than the threshold away.
C2_Witness ==
    /\ Len(objs) = 1
    /\ devices["a1"] = 1
    /\ \A t \in Tasks : tasks[t].pc = "idle"
    /\ detected.address = "a1"
    /\ detected.rssi # objs[1].rssi
    /\ Abs(detected.rssi - objs[1].rssi) < _rssi_change_threshold
    /\ Or(detected.name, detected.local_name) = objs[1].name
    /\ detected.manufacturer_data = objs[1].manufacturer_data
    /\ Len(bus_log) = 1

\* the advertisement's RSSI is at least the threshold away from the stored one
RssiMoved(adv) ==
    /\ devices[adv.address] # NoDev
    /\ LET e == objs[devices[adv.address]]
       IN  /\ Abs(e.rssi - adv.rssi) >= _rssi_change_threshold
           /\ Or(adv.name, adv.local_name) = e.name
           /\ adv.manufacturer_data = e.manufacturer_data

\* C3: a detection of a stored address whose RSSI is 5 dB or more away from
\* the stored RSSI, name and payload unchanged, puts the incoming RSSI into
\* the stored device and goes on to save it (which notifies the update).
C3_RssiChangeIsStored ==
    [][\A t \in Tasks :
          (RssiMoved(detected') /\ ProcessDetectionGet(t, detected')) =>
              /\ tasks'[t].pc = "save"
              /\ objs'[devices[detected'.address]].rssi = detected'.rssi]_vars

\* the advertisement's name or payload map differs from the stored one
NameOrPayloadDiffers(adv) ==
    /\ devices[adv.address] # NoDev
    /\ LET e == objs[devices[adv.address]]
           name == Or(adv.name, adv.local_name)
       IN  \/ Truthy(name) /\ name # e.name
           \/ adv.manufacturer_data # e.manufacturer_data

\* C4: a detection of a stored address with another non-empty name or
\* another payload map (an empty one included) is saved, and the stored
\* device then has the candidate's payload map and, if non-empty, its name.
C4_NameOrPayloadChangeIsStored ==
    [][\A t \in Tasks :
          (NameOrPayloadDiffers(detected') /\ ProcessDetectionGet(t, detected')) =>
              LET e == objs'[devices[detected'.address]]
                  name == Or(detected'.name, detected'.local_name)
              IN  /\ tasks'[t].pc = "save"
                  /\ e.manufacturer_data = detected'.manufacturer_data
                  /\ Truthy(name) => e.name = name]_vars

\* C5: when the event-publishing observer is notified of the update of a
\* device that the detection found stored and changed, it publishes a
\* DeviceUpdated event for that address.
C5_UpdateIsPublished ==
    [][(/\ notif.kind = "updated"
        /\ notif.caller \in Tasks
        /\ tasks[notif.caller].found
        /\ "pub" \in DOMAIN notif.units
        /\ notif.units["pub"] = "spawned"
        /\ notif'.kind = "updated"
        /\ notif'.units["pub"] = "running") =>
            /\ Len(bus_log') = Len(bus_log) + 1
            /\ bus_log'[Len(bus_log')].type = "DeviceUpdated"
            /\ bus_log'[Len(bus_log')].address = notif.address]_vars

\* C6: while an observer callback runs, the store's lock is free.
C6_LockFreeDuringCallbacks ==
    (\E o \in DOMAIN notif.units : notif.units[o] = "running") => lock = Free

\* C7: when an observer callback has raised, the store call still returns
\* only after every other observer's callback was started and has ended, it
\* returns normally, and the mutation it made is in the store.
C7_FailureIsIsolated ==
    [][(ReturnStep /\ \E o \in DOMAIN notif.units : notif.units[o] = "raised") =>
           /\ \A o \in DOMAIN notif.units : notif.units[o] \in {"ok", "raised"}
           /\ outcome'.result = "ok"
           /\ outcome'.op = (IF notif.kind = "deleted" THEN "delete" ELSE "save")
           /\ devices'[notif.address] = notif.device
           /\ notif.caller \in Tasks =>
                discovered_queue' = Append(discovered_queue, notif.device)]_vars

\* C7 witness: of two observers notified of the same store event one has
\* raised and the other has run to its end.
C7_Witness ==
    /\ DOMAIN notif.units = {"pub", "aux"}
    /\ notif.units["aux"] = "raised"
    /\ notif.units["pub"] = "ok"

\* C8: a store call that spawned observer callbacks returns to its caller
\* only when each of them has ended, and until then it keeps its caller.
C8_JoinAll ==
    [][/\ ReturnStep => \A o \in DOMAIN notif.units : notif.units[o] \in {"ok", "raised"}
       /\ (notif.kind # "none" /\ ~ReturnStep) =>
             /\ notif'.caller = notif.caller
             /\ notif.caller \in Tasks => tasks'[notif.caller].pc = "notifying"]_vars

\* C8 witness: one callback of a save has ended while another one has not
\* started yet, and the saving task is still waiting.
C8_Witness ==
    /\ notif.kind \in {"created", "updated"}
    /\ tasks[notif.caller].pc = "notifying"
    /\ \E o1, o2 \in DOMAIN notif.units :
          notif.units[o1] = "ok" /\ notif.units[o2] = "spawned"

\* no call is in progress on any manager
ManagersIdle == \A m \in Managers : mgr[m].pc = "idle"

\* C9: when the last call to complete was a start_scan on a manager and
\* start_scan is called on that manager again, with no stop_scan in between,
\* the second call fails with InvalidScanStateError and publishes nothing,
\* leaves the saved session as it is and starts no scanner task.
C9_SecondStartIsRejected ==
    [][\A m \in Managers :
          (ManagersIdle /\ outcome.op = "start_scan" /\ outcome.by = m
             /\ StartScanBegin(m))
          => /\ outcome'.result = "InvalidScanStateError"
             /\ UNCHANGED <<bus_log, scan, mgr>>]_vars

\* there is no session, or the session is not in the scanning state
NotScanning == scan.state \in {"absent", "idle", "stopped"}

\* C10: stop_scan called while there is no session or the session is not
\* scanning fails with InvalidScanStateError, and the failed call leaves the
\* session, the scanner, the scanner task and the bus log as they are.
C10_StopWithoutScanIsRejected ==
    [][\A m \in Managers :
          (NotScanning /\ StopScanBegin(m))
          => /\ outcome' = [op |-> "stop_scan", by |-> m,
                            result |-> "InvalidScanStateError"]
             /\ UNCHANGED <<scan, adapter, discovered_queue, bus_log, mgr>>]_vars

\* stop_scan was just rejected on a session that had been started and stopped
C10_Witness ==
    /\ ManagersIdle
    /\ outcome.op = "stop_scan"
    /\ outcome.result = "InvalidScanStateError"
    /\ scan.state = "stopped"


\* the managers whose scanner task has begun its body and has not finished
RunningScanTasks == {m \in Managers : mgr[m].task \in {"starting", "looping"}}

\* C11: in every reachable state at most one scanner background task is
\* running, also when start_scan is called on different ScanManager instances
\* that share the scanner and the scan repository.
C11_AtMostOneScanTask == Cardinality(RunningScanTasks) <= 1

\* C12: the queue of discovered devices has a fixed finite capacity and in
\* every reachable state holds at most that many items.
C12_QueueWithinCapacity ==
    Len(discovered_queue) > 0 => (maxsize > 0 /\ Len(discovered_queue) <= maxsize)

\* a step in which a detection task returns from save and calls put_nowait
PutStep == \E t \in Tasks : tasks[t].pc \in {"save", "notifying"} /\ tasks'[t].pc = "idle"

InProcess(t) == tasks[t].pc # "idle"

\* C14: detections are processed in arrival order, one after the other: when
\* the store lookup of a detection takes place, every detection that was
\* looked up before it has returned from its save.
C14_LookupAfterEarlierSave ==
    [][\A t \in Tasks :
          ProcessDetectionGet(t, detected')
          => \A u \in Tasks \ {t} : ~InProcess(u)]_vars

\* C15: processing is serialized: in every reachable state at most one
\* detection is between its store lookup and the return of its save.
C15_OneDetectionInProcess == Cardinality({t \in Tasks : InProcess(t)}) <= 1

\* the snapshot the store holds for the address is not the same after the step
SnapshotChanged(a) ==
    \/ devices'[a] # devices[a]
    \/ devices[a] # NoDev /\ objs'[devices[a]] # objs[devices[a]]

\* a step of save, delete or clear that writes the map under the lock
StoreWrite ==
    \/ \E t \in Tasks : SaveStep(t)
    \/ \E a \in Addresses : Delete(a)
    \/ Clear

\* C16: the stored snapshot of an address changes only inside save, delete or
\* clear; nothing a caller does with a value it obtained from get changes it.
C16_StoredChangesOnlyInStore ==
    [][\A a \in Addresses : SnapshotChanged(a) => StoreWrite]_vars

\* C17: when an observer callback of a save begins, the map already holds the
\* saved snapshot under its address, and the callbacks of one save are in no
\* order: any of them that has not begun may be the next to begin.
C17_MutationBeforeNotification ==
    [][\A o \in Observers :
          (notif.kind \in {"created", "updated"} /\ ObserverStart(o))
          => /\ devices[notif.address] = notif.device
             /\ \A p \in DOMAIN notif.units :
                   notif.units[p] = "spawned" => ENABLED ObserverStart(p)]_vars

\* a save notifies two observers, the second of them began first, and the map
\* holds the saved snapshot
C17_Witness ==
    /\ notif.kind \in {"created", "updated"}
    /\ DOMAIN notif.units = Observers
    /\ notif.units["pub"] = "spawned"
    /\ notif.units["aux"] # "spawned"
    /\ devices[notif.address] = notif.device

\* C18: an event's occurred_at is the time of its construction, whatever the
\* constructor's caller passes; a published event never changes; and every
\* message relayed to a connection carries the event's occurred_at, however
\* late it is sent.
C18_TimestampFixedAtConstruction ==
    [][/\ \A i \in 1 .. Len(bus_log) :
             i <= Len(bus_log') /\ bus_log'[i] = bus_log[i]
       /\ Len(bus_log') > Len(bus_log)
             => bus_log'[Len(bus_log')].occurred_at = clock
       /\ \A c \in Connections : \A i \in 1 .. Len(sent'[c]) :
             sent'[c][i].timestamp = bus_log'[i].occurred_at]_vars

\* an event was relayed to both connections, to one of them after the clock
\* had moved on, and a constructor call that passed occurred_at was refused
C18_Witness ==
    /\ \A c \in Connections : Len(sent[c]) >= 1
    /\ \E c \in Connections : sent[c][1].sent_at > sent[c][1].timestamp
    /\ outcome.result = "TypeError"

\* the ScanStopped events on the bus
StoppedEvents == {i \in 1 .. Len(bus_log) : bus_log[i].type = "ScanStopped"}

\* C19: an accepted stop_scan goes in this order: the session is stopped and
\* saved and the scanner told to stop before anything else; the task is
\* cancelled once the scanner is dropped and before anything is published;
\* ScanStopped is published when the task is no longer live; the call returns
\* only after that, so that it publishes ScanStopped exactly once.
C19_StopScanInOrder ==
    [][\A m \in Managers :
          /\ (mgr[m].pc = "idle" /\ mgr'[m].pc \in {"cleanup", "joining", "publishing"})
                => scan'.state = "stopped" /\ ~adapter'.scanning
          /\ (mgr[m].pc # mgr'[m].pc /\ mgr'[m].pc \in {"cleanup", "joining"})
                => bus_log' = bus_log
          /\ (mgr[m].pc # "joining" /\ mgr'[m].pc = "joining")
                => ~adapter'.scanner
          /\ (mgr[m].pc # "publishing" /\ mgr'[m].pc = "publishing")
                => /\ ~TaskActive(mgr'[m].task)
                   /\ Len(bus_log') = Len(bus_log) + 1
                   /\ bus_log'[Len(bus_log')].type = "ScanStopped"
          /\ (mgr[m].pc \in {"cleanup", "joining", "publishing"} /\ mgr'[m].pc = "idle")
                => mgr[m].pc = "publishing" /\ bus_log' = bus_log]_vars

\* a stop_scan that found a live task has cancelled and awaited it and has
\* published its one ScanStopped
C19_Witness ==
    \E m \in Managers :
        /\ mgr[m].pc = "publishing"
        /\ mgr[m].task = "done"
        /\ scan.state = "stopped"
        /\ ~adapter.scanner
        /\ Cardinality(StoppedEvents) = 1
        /\ bus_log[Len(bus_log)].type = "ScanStopped"

\* the scan lifecycle events on the bus
ScanEvents(log) == {i \in 1 .. Len(log) : log[i].type \in {"ScanStarted", "ScanStopped"}}

\* the addresses the store holds
StoredAddresses == {a \in Addresses : devices[a] # NoDev}

\* C20: the ScanStopped of a scan carries the number of addresses detected
\* and saved during it: when the stop_scan that follows the first start_scan
\* is accepted and no detection is in process, the ScanStopped built from the
\* stopped session has devices_found equal to the number of addresses the
\* store holds, all of them saved since that start_scan.
C20_DevicesFoundCountsSaved ==
    [][\A m \in Managers :
          (/\ mgr[m].pc = "idle"
           /\ mgr'[m].pc \in {"cleanup", "joining", "publishing"}
           /\ Cardinality(ScanEvents(bus_log)) = 1
           /\ \A t \in Tasks : ~InProcess(t))
          => ScanStopped(scan').devices_found = Cardinality(StoredAddresses)]_vars

\* the ScanStarted events on the bus that carry the scan id
StartedEvents(log, id) ==
    {i \in 1 .. Len(log) : log[i].type = "ScanStarted" /\ log[i].scan_id = id}

\* C21: an accepted start_scan makes a session with an id of its own when the
\* repository holds none and otherwise starts the session it holds, under the
\* id it has (also when it had been stopped); the session is saved in the
\* scanning state and ScanStarted with its id is handed to the bus while the
\* call has not created the scanner task, which it creates only after that;
\* and every ScanStopped on the bus has a ScanStarted of its id before it.
C21_StartScanInOrder ==
    [][/\ \A m \in Managers :
            /\ (mgr[m].pc = "idle" /\ mgr'[m].pc = "starting")
                  => /\ scan'.state = "scanning"
                     /\ scan # NoScan => scan'.id = scan.id
                     /\ scan = NoScan =>
                           /\ scan'.id # NoScan.id
                           /\ \A i \in ScanEvents(bus_log) : bus_log[i].scan_id # scan'.id
                     /\ bus_log' = Append(bus_log, ScanStarted(scan'))
                     /\ mgr'[m].task = mgr[m].task
            /\ (mgr[m].task # "pending" /\ mgr'[m].task = "pending")
                  => mgr[m].pc = "starting" /\ UNCHANGED <<scan, bus_log>>
       /\ \A i \in 1 .. Len(bus_log') :
            bus_log'[i].type = "ScanStopped"
               => \E j \in StartedEvents(bus_log', bus_log'[i].scan_id) : j < i]_vars

\* a session was started, stopped and started again by a start_scan that
\* succeeded: the three events carry the one id of the session
C21_Witness ==
    /\ ManagersIdle
    /\ outcome.op = "start_scan" /\ outcome.result = "ok"
    /\ scan.state = "scanning"
    /\ Len(bus_log) = 3
    /\ bus_log[2].type = "ScanStopped"
    /\ Cardinality(StartedEvents(bus_log, scan.id)) = 2

\* the scanner's stop_scan has completed and no start_scan was accepted since
StoppedAndCleaned ==
    /\ scan.state = "stopped"
    /\ \A m \in Managers : mgr[m].pc # "cleanup"

\* C22: once the scanner's stop_scan has completed, the queue of discovered
\* devices is empty, and it stays empty until the next start_scan, whatever
\* the detection tasks created before the stop go on to do.
C22_QueueEmptyAfterStop == StoppedAndCleaned => discovered_queue = <<>>

\* C23: delete of a stored address removes its snapshot and spawns
\* on_device_deleted once for each subscribed observer, each callback begins
\* once and the call returns when all of them have ended; delete of an
\* address that is not stored changes neither the store nor any observer.
C23_DeleteNotifiesOnce ==
    [][/\ \A a \in Addresses :
            Delete(a) =>
               IF devices[a] # NoDev
               THEN /\ devices' = [devices EXCEPT ![a] = NoDev]
                    /\ observers # {} =>
                          /\ notif'.kind = "deleted"
                          /\ notif'.address = a
                          /\ notif'.units = [o \in observers |-> "spawned"]
               ELSE UNCHANGED <<devices, objs, observers, lock, notif,
                                last_known_state, bus_log>>
       /\ notif.kind = "deleted" =>
            /\ devices'[notif.address] = NoDev
            /\ ReturnStep => \A o \in DOMAIN notif.units : notif.units[o] \in {"ok", "raised"}
            /\ ~ReturnStep =>
                  /\ DOMAIN notif'.units = DOMAIN notif.units
                  /\ \A o \in DOMAIN notif.units :
                        notif.units[o] # "spawned" => notif'.units[o] # "spawned"]_vars

\* a delete of a stored address has notified both observers, and the
\* callbacks of both have ended
C23_Witness ==
    /\ notif.kind = "deleted"
    /\ DOMAIN notif.units = Observers
    /\ \A o \in Observers : notif.units[o] = "ok"
    /\ devices[notif.address] = NoDev

\* C24: clear removes every snapshot from the store, spawns no observer
\* callback and publishes nothing, and leaves the observer set as it is.
C24_ClearIsSilent ==
    [][Clear => /\ \A a \in Addresses : devices'[a] = NoDev
                /\ notif' = NoNotif
                /\ lock' = Free
                /\ UNCHANGED <<observers, notif, last_known_state, bus_log, tasks>>]_vars

\* the store was cleared with both observers subscribed, after the creation
\* of two devices had been notified and published
C24_Witness ==
    /\ outcome.op = "clear"
    /\ observers = Observers
    /\ Len(bus_log) = 2
    /\ \A a \in Addresses : devices[a] = NoDev
    /\ notif = NoNotif

\* a step in which a store call spawns its observer callbacks
SpawnStep == notif.kind = "none" /\ notif'.kind # "none"

\* C25: the observers are a set. A subscribe of a subscribed observer and an
\* unsubscribe of one that is not subscribed change nothing and raise
\* nothing; after an unsubscribe the observer is not subscribed, however
\* often it had been subscribed, and the others are as before; and a store
\* call spawns one callback for each subscribed observer, which begins once.
C25_ObserversAreASet ==
    [][/\ \A o \in Observers :
            /\ Subscribe(o) =>
                  /\ observers' = observers \cup {o}
                  /\ o \in observers => UNCHANGED vars
            /\ Unsubscribe(o) =>
                  /\ o \notin observers'
                  /\ observers' \ {o} = observers \ {o}
                  /\ o \notin observers => UNCHANGED vars
       /\ SpawnStep => notif'.units = [o \in observers |-> "spawned"]
       /\ (notif.kind # "none" /\ ~ReturnStep) =>
             /\ DOMAIN notif'.units = DOMAIN notif.units
             /\ \A o \in DOMAIN notif.units :
                   notif.units[o] # "spawned" => notif'.units[o] # "spawned"]_vars

\* the one callback of an update has ended for the observer that was alone
\* subscribed when it was spawned and that was unsubscribed since, while the
\* other observer was subscribed
C25_Witness ==
    /\ notif.kind = "updated"
    /\ DOMAIN notif.units = {"aux"}
    /\ notif.units["aux"] = "ok"
    /\ observers = {"pub"}

\* the decoders of the registry that end the loop for the entry: their
\* predicate is true, or it raises
Stops(decoders, entry) ==
    {i \in 1 .. Len(decoders) :
        LET can == DecoderCanDecode(decoders[i], entry[1], entry[2])
        IN  can.raised \/ can.value}

\* the first of them
FirstStop(decoders, entry) ==
    CHOOSE i \in Stops(decoders, entry) : \A k \in Stops(decoders, entry) : i <= k

\* first match wins: the decoders are asked in registration order up to the
\* first that stops the loop, which is then called once if its predicate was
\* true, and nothing else is asked or called
FirstMatchTrace(decoders, entry) ==
    IF Stops(decoders, entry) = {}
    THEN [i \in 1 .. Len(decoders) |-> [method |-> "can_decode", decoder |-> i]]
    ELSE LET first == FirstStop(decoders, entry)
         IN  [i \in 1 .. first |-> [method |-> "can_decode", decoder |-> i]]
             \o (IF DecoderCanDecode(decoders[first], entry[1], entry[2]).raised
                 THEN <<>>
                 ELSE <<[method |-> "decode", decoder |-> first]>>)

\* C26: for every entry of a decode the registry asks its decoders in
\* registration order, calls the first whose predicate is true exactly once
\* and asks or calls no later one, also when the called decoder fails; and
\* register_decoder puts the new decoder after all that are registered.
C26_FirstMatchWins ==
    [][/\ call'.op = "decode" =>
            \A k \in 1 .. Len(call'.returned.traces) :
                call'.returned.traces[k] =
                    FirstMatchTrace(call'.decoders, call'.manufacturer_data[k])
       /\ \A decoder \in CustomDecoders :
            register_decoder(decoder) => _decoders' = Append(_decoders, decoder)]_vars

\* an entry that the beacon decoder refuses was decoded with two more
\* decoders registered whose predicates are both true: the first of them was
\* called and failed, the second was not asked
C26_Witness ==
    /\ call.op = "decode"
    /\ Len(call.decoders) = 3
    /\ call.decoders[2].can_decode = "true" /\ call.decoders[2].decode = "raises"
    /\ call.decoders[3].can_decode = "true" /\ call.decoders[3].decode = "result"
    /\ Len(call.manufacturer_data) = 1
    /\ call.manufacturer_data[1][1] = UnknownCompany
    /\ call.returned.traces[1] =
          <<[method |-> "can_decode", decoder |-> 1],
            [method |-> "can_decode", decoder |-> 2],
            [method |-> "decode", decoder |-> 2]>>

\* the decoder called for the entry gave an advertisement
DecodedBySome(decoders, entry) ==
    /\ Stops(decoders, entry) # {}
    /\ LET first == decoders[FirstStop(decoders, entry)]
       IN  /\ ~DecoderCanDecode(first, entry[1], entry[2]).raised
           /\ DecoderDecode(first, entry[1], entry[2]).kind \notin {"raised", "None"}

\* C27: a decode returns, whatever the registered decoders do, one result for
\* each entry of its input, in order; where no decoder gave an advertisement
\* for the entry (none accepted it, or the one called raised or returned
\* None) the result has the generic advertisement with the entry's bytes and
\* the description "<vendor name> - Raw: <bytes in hex>", the vendor name
\* being the placeholder for a vendor id that is not known.
C27_FailuresGiveGeneric ==
    call.op = "decode" =>
        /\ ~call.returned.raised
        /\ Len(call.returned.results) = Len(call.manufacturer_data)
        /\ \A k \in 1 .. Len(call.returned.results) :
              LET entry == call.manufacturer_data[k]
                  result == call.returned.results[k]
              IN  /\ result.raw_data = entry[2]
                  /\ ~DecodedBySome(call.decoders, entry) =>
                        /\ result.advertisement.kind = "generic"
                        /\ result.advertisement.raw_data = entry[2]
                        /\ result.advertisement.description =
                              CompanyName(entry[1]) \o " - Raw: " \o Hex(entry[2])

\* C28: the beacon predicate raises for no payload and is true exactly when
\* the vendor id is 0x004C, the payload has 23 bytes or more, its first byte
\* is 0x02 and its second 0x15.
C28_BeaconPredicate ==
    call.op = "can_decode" =>
        /\ ~call.returned.raised
        /\ call.returned.value =
              (/\ call.company_id = 76
               /\ Len(call.data) >= 23
               /\ call.data[1] = 2
               /\ call.data[2] = 21)

\* the predicate was asked about a payload of 22 bytes that has the vendor id
\* and both marker bytes of a beacon, and said no
C28_Witness ==
    /\ call.op = "can_decode"
    /\ call.company_id = 76
    /\ Len(call.data) = 22
    /\ call.data[1] = 2 /\ call.data[2] = 21
    /\ ~call.returned.raised /\ ~call.returned.value

\* the payload of the call satisfies the beacon predicate
BeaconCall ==
    /\ call.op = "beacon_decode"
    /\ call.company_id = 76
    /\ Len(call.data) >= 23
    /\ call.data[1] = 2
    /\ call.data[2] = 21

\* C29: for a payload that satisfies the beacon predicate decode raises
\* nothing and returns a beacon whose UUID is the bytes 2 to 17, whose major
\* is 256 * byte 18 + byte 19 and minor 256 * byte 20 + byte 21, and whose
\* measured power is byte 22 as a signed 8-bit value; the bytes from index 23
\* on have no part in it.
C29_BeaconFields ==
    BeaconCall =>
        LET byte(i) == call.data[i + 1]
        IN  /\ call.returned.kind = "ibeacon"
            /\ call.returned.uuid = [i \in 1 .. 16 |-> byte(i + 1)]
            /\ call.returned.major = 256 * byte(18) + byte(19)
            /\ call.returned.minor = 256 * byte(20) + byte(21)
            /\ call.returned.measured_power_dbm =
                  {IF byte(22) >= 128 THEN byte(22) - 256 ELSE byte(22)}

\* a payload of 25 bytes was decoded to a beacon with major 0x01ff, minor
\* 0x02ff and a measured power of -59 dBm (byte 0xc5)
C29_Witness ==
    /\ BeaconCall
    /\ Len(call.data) = 25
    /\ call.returned.kind = "ibeacon"
    /\ call.returned.major = 511
    /\ call.returned.minor = 767
    /\ call.returned.measured_power_dbm = {-59}

\* the conditions under which no distance is available, by the claim
Unavailable(measured_power_dbm, rssi_dbm, path_loss_exponent) ==
    \/ measured_power_dbm = {}
    \/ \E A \in measured_power_dbm : A < -100 \/ A > -10
    \/ path_loss_exponent <= 0
    \/ rssi_dbm >= 0

\* C30: estimate_distance returns None when the measured power is absent or
\* outside [-100, -10], when the path-loss exponent is zero or less, and when
\* the RSSI is zero or more; for all other arguments it returns a distance.
C30_DistanceOrUnavailable ==
    call.op = "estimate_distance" =>
        call.returned.kind =
            (IF Unavailable(call.measured_power_dbm, call.rssi_dbm,
                            call.path_loss_exponent)
             THEN "None" ELSE "distance")

\* a step in which the scanner's stop_scan, called by manager m, returns
ScannerStopReturns(m) ==
    /\ mgr[m].pc \in {"idle", "cleanup"}
    /\ mgr'[m].pc \in {"joining", "publishing"}

\* C31: whenever the scanner's stop_scan returns, the adapter is not
\* scanning, holds no scanner and has an empty queue, and no error was
\* raised; so it is when the adapter was in that state before the call (it
\* was never started, or it was stopped and not started since), in which
\* case the call changes nothing of the adapter.
C31_StopScanIdempotent ==
    [][\A m \in Managers :
          ScannerStopReturns(m) =>
             /\ adapter' = [scanning |-> FALSE, scanner |-> FALSE]
             /\ discovered_queue' = <<>>
             /\ UNCHANGED outcome
             /\ (~adapter.scanning /\ ~adapter.scanner /\ discovered_queue = <<>>)
                   => UNCHANGED <<adapter, discovered_queue>>]_vars

\* the scanner was stopped a second time with no start in between: the
\* second scan's task was cancelled before it ran, after a first scan in
\* which a device was detected
C31_Witness ==
    /\ mgr[ScanOwner] = [pc |-> "joining", task |-> "done"]
    /\ Cardinality(StoppedEvents) = 1
    /\ Len(objs) >= 1
    /\ adapter = [scanning |-> FALSE, scanner |-> FALSE]
    /\ discovered_queue = <<>>

\* a step in which the publish awaited by the observer ends
PublishEndStep == publishing # NoPublishing /\ publishing' = NoPublishing

\* C32: a handler that fails keeps no other handler of the event from
\* running and the publish from ending: the publish ends when each
\* subscribed handler has run, failed or not; the callback of the
\* event-publishing observer then ends normally, whether or not the failure
\* reached it as an exception, and the save that notified returns normally.
C32_HandlerFailureIsIsolated ==
    [][/\ \A h \in DOMAIN publishing :
            publishing[h] = "spawned" => ENABLED HandlerRuns(h)
       /\ (publishing # NoPublishing /\ HandlersDone(publishing))
            => ENABLED PublishEnds(FALSE)
       /\ PublishEndStep =>
            /\ DOMAIN publishing = handlers
            /\ HandlersDone(publishing)
            /\ notif'.units["pub"] = "ok"
       /\ "pub" \in DOMAIN notif'.units => notif'.units["pub"] # "raised"
       /\ (ReturnStep /\ notif.kind \in {"created", "updated"})
            => outcome' = [op |-> "save", by |-> 0, result |-> "ok"]]_vars

\* the publish of a DeviceUpdated has ended with HandlerExecutionError after
\* one handler failed and the other ran, and the observer's callback has
\* ended normally
C32_Witness ==
    /\ notif.kind = "updated"
    /\ notif.units["pub"] = "ok"
    /\ outcome = [op |-> "publish", by |-> 0, result |-> "HandlerExecutionError"]
    /\ bus_log[Len(bus_log)].type = "DeviceUpdated"

\* C33: the two guards agree between completed ScanManager calls: while no
\* call of the manager is in progress, the persisted session is in the
\* scanning state exactly when the manager holds a scan task that has not
\* finished.
C33_ScanGuardsAgree ==
    mgr[ScanOwner].pc = "idle" =>
        (scan.state = "scanning" <=> TaskActive(mgr[ScanOwner].task))

\* a stop_scan that has saved the session as stopped and has not yet handed
\* ScanStopped to the bus
StopPersisted(m) == mgr[m].pc \in {"cleanup", "joining"}

\* C34: every persisted transition to stopped is eventually followed by the
\* publication of ScanStopped for that scan, with the background task no
\* longer live, also when the scanner's stop_scan raises.
C34_StopLeadsToScanStopped ==
    \A m \in Managers :
        StopPersisted(m) ~>
            /\ mgr[m].pc = "publishing"
            /\ ~TaskActive(mgr[m].task)
            /\ bus_log[Len(bus_log)] = ScanStopped(scan)

\* a step in which a save or a delete changes the map
MutationStep == (\E t \in Tasks : SaveStep(t)) \/ devices' # devices

\* C35: notifications of the store do not overlap and come in the order of
\* the mutations: a save or delete changes the map only while no callback of
\* an earlier call is unfinished, the callbacks that run are those of the one
\* call that mutated last, and that call is over only when each of its
\* callbacks has ended; so the callbacks of the save that created an address
\* have ended when those of a later save of it begin.
C35_NotificationsDoNotOverlap ==
    [][/\ MutationStep => notif.kind = "none"
       /\ (notif.kind # "none" /\ notif'.kind # "none") =>
             /\ notif'.kind = notif.kind
             /\ notif'.address = notif.address
             /\ notif'.caller = notif.caller
             /\ UNCHANGED devices
       /\ ReturnStep =>
             \A o \in DOMAIN notif.units : notif.units[o] \in {"ok", "raised"}
       /\ \A o \in Observers :
             (ObserverStart(o) /\ notif.kind = "updated") =>
                \A i \in 1 .. Len(bus_log) :
                   bus_log[i].type = "DeviceCreated" /\ bus_log[i].address = notif.address
                      => last_known_state[notif.address].known]_vars

\* the callbacks of a second save of an address run, one of them not yet
\* ended, after those of the save that created it have ended and published
C35_Witness ==
    /\ notif.kind = "updated"
    /\ DOMAIN notif.units = Observers
    /\ notif.units["aux"] = "running"
    /\ \E i \in 1 .. Len(bus_log) :
          bus_log[i].type = "DeviceCreated" /\ bus_log[i].address = notif.address

\* C36: the store does not deadlock: the lock is free whenever no save or
\* delete is in progress, a held lock is released, and a save that waits for
\* the lock returns, also when a callback of the call in progress has raised.
C36_StoreCallsReturn ==
    /\ [](notif.kind = "none" => lock = Free)
    /\ (lock # Free) ~> (lock = Free)
    /\ \A t \in Tasks : (tasks[t].pc = "save") ~> (tasks[t].pc = "idle")

\* a save waits for the lock while the call that holds it has had a callback
\* raise
C36_Witness ==
    /\ lock \in Tasks
    /\ \E t \in Tasks : t # lock /\ tasks[t].pc = "save"
    /\ "aux" \in DOMAIN notif.units
    /\ notif.units["aux"] = "raised"

\* the DeviceCreated and DeviceUpdated events on the bus for an address
DeviceEvents(log, address) ==
    {i \in 1 .. Len(log) :
        /\ log[i].type \in {"DeviceCreated", "DeviceUpdated"}
        /\ log[i].address = address}

\* the last of them
LastDeviceEvent(log, address) ==
    log[CHOOSE i \in DeviceEvents(log, address) :
            \A j \in DeviceEvents(log, address) : j <= i]

\* a step in which the observer hands a device event to the bus
DevicePublication ==
    /\ Len(bus_log') = Len(bus_log) + 1
    /\ bus_log'[Len(bus_log')].type \in {"DeviceCreated", "DeviceUpdated"}

\* C37: the event-publishing observer publishes DeviceUpdated for an address
\* only when the RSSI differs by at least 5 dB from the RSSI of the last
\* device event it published for that address, or the name differs from that
\* event's name; and after each publication its tracked state for the
\* address is the RSSI and the name the event carries.
C37_UpdatesAreSignificant ==
    [][DevicePublication =>
         LET event == bus_log'[Len(bus_log')]
         IN  /\ last_known_state'[event.address] =
                   [known |-> TRUE, rssi |-> event.rssi, name |-> event.name]
             /\ (event.type = "DeviceUpdated" /\ DeviceEvents(bus_log, event.address) # {})
                   => LET last == LastDeviceEvent(bus_log, event.address)
                      IN  \/ Abs(last.rssi - event.rssi) >= 5
                          \/ last.name # event.name]_vars

\* a DeviceUpdated was published for a change of RSSI alone, of 8 dB or more,
\* after the DeviceCreated of the address
C37_Witness ==
    /\ Len(bus_log) = 2
    /\ bus_log[1].type = "DeviceCreated"
    /\ bus_log[2].type = "DeviceUpdated"
    /\ bus_log[2].address = bus_log[1].address
    /\ bus_log[2].name = bus_log[1].name
    /\ Abs(bus_log[2].rssi - bus_log[1].rssi) >= 8
    /\ last_known_state[bus_log[2].address].rssi = bus_log[2].rssi

\* C38: no DeviceUpdated is on the bus for an address without a
\* DeviceCreated for that address before it, whenever the observer was
\* subscribed and whatever saves, deletes and clears were made.
C38_CreatedBeforeUpdated ==
    \A i \in 1 .. Len(bus_log) :
        bus_log[i].type = "DeviceUpdated" =>
            \E j \in 1 .. i - 1 :
                /\ bus_log[j].type = "DeviceCreated"
                /\ bus_log[j].address = bus_log[i].address

\* the manager's stop_scan has returned and no start_scan was made since
StopReturned == scan.state = "stopped" /\ mgr[ScanOwner].pc = "idle"

\* C39: from the return of the manager's stop_scan until the next
\* start_scan the pipeline is at rest: no step saves a device to the store
\* and none publishes DeviceCreated or DeviceUpdated, whatever detection
\* tasks created before the stop are still under way.
C39_QuiescentAfterStop ==
    [][StopReturned => UNCHANGED devices /\ ~DevicePublication]_vars
====
